---- MODULE Spec2Model ----
(***************************************************************************)
(* of-lyre: MIDI events -> simulated key presses (src/core.py).            *)
(*                                                                         *)
(* The model follows play_events line by line: the grouping of the event   *)
(* list, the reference clock, the hybrid sleep/spin wait with its stop     *)
(* checks, the per-group dispatch and the final cleanup.  The caller is    *)
(* another thread that sets the stop flag (core.stop) and clears it        *)
(* (agent.cnt).  Every SendInput call is recorded in `calls`.              *)
(*                                                                         *)
(* Time: the clock `now` counts units of 5 ms, so spin_threshold = 0.005 s *)
(* is 1 unit, sleep_chunk = 0.01 s is 2 and progress_interval = 0.05 s is  *)
(* 10.  Time passes while the thread is blocked in Event.wait, while it    *)
(* spins, and (at most MaxSendDelay units per session) while a group is    *)
(* being injected; the other statements take no time.                      *)
(*                                                                         *)
(* SendInput's return value is recorded with every call (SpecInjection     *)
(* lets one call insert nothing), the progress callback may raise at any   *)
(* invocation, and midi_to_events / midi_total_length are operators that   *)
(* SpecCompiler applies to bounded message streams.                        *)
(***************************************************************************)
EXTENDS Integers, Sequences, FiniteSets, TLC

VARIABLES
    events,             \* argument: list of (time, 'on'/'off', note)
    has_cb,             \* argument: progress_callback is not None
    fail_at,            \* the SendInput call (by number) that inserts nothing; 0: none
    entry_set,          \* history: stop_flag was set when play_events was called
    mid,                \* the MidiFile: ticks_per_beat and the merged messages
    min_time,           \* argument of midi_to_events: <<>> (None) or <<t>>
    max_time,           \* argument of midi_to_events: <<>> (None) or <<t>>
    compiled,           \* <<>>, or <<list returned by midi_to_events>>
    total,              \* <<>>, or <<value returned by midi_total_length>>
    recompiled,         \* <<>>, or <<list returned by a second midi_to_events>>
    key_txt,            \* <<>> (no key.txt), or <<the characters of key.txt>>
    note_to_char,       \* <<>>, or <<_NOTE_TO_CHAR once core is imported>>
    fine_events,        \* an event list with times in units of 0.5e-9 s
    fine_groups,        \* <<>>, or <<the groups built from fine_events>>
    track,              \* a track of the MidiFile the agent downloaded
    selected,           \* whether the index of `track` is in selected_indices
    new_track,          \* <<>>, or <<the track after the agent's filtering>>
    agent,              \* the agent process: stop_flag, threads, handlers, clock
    gui,                \* the GUI: play_thread, stop_flag, its workers
    controller,         \* the ensemble controller: a call of assign_tracks
    library,            \* auto_online: the server's songs, the queue, the loop
    ensemble,           \* agents that were sent /play for one song
    stop_flag,          \* the threading.Event shared with the caller
    now,                \* time.perf_counter(), in units of 5 ms
    pc,                 \* position of the play_events thread
    groups,             \* local: list of (cur_t, cur_group)
    gi,                 \* local: index of the group of the for loop
    start_wall,         \* local
    last_progress_time, \* local
    target_wall,        \* local
    wait_until,         \* when the pending Event.wait times out
    reached_at,         \* clock when the for loop reached the current group
    busy,               \* clock units spent injecting so far
    pressed_chars,      \* local: the PressedKeySet
    calls,              \* history: the SendInput calls issued so far
    progress,           \* history: the invocations of progress_callback
    disp,               \* history: one record per dispatched group
    observed,           \* history: an is_set() check has returned True
    stops,              \* history: number of calls of stop_flag.set()
    clears,             \* history: number of calls of stop_flag.clear()
    set_at,             \* history: clock when the flag was set during a wait
    set_in,             \* history: the group in whose dispatch the flag was set; 0: none
    cleared             \* history: stop_flag.clear() was called after set_at

vars == <<events, has_cb, fail_at, entry_set, mid, min_time, max_time, compiled,
          total,
          recompiled, key_txt, note_to_char, fine_events, fine_groups, track,
          selected, new_track, agent, gui, controller, library, ensemble,
          stop_flag, now, pc, groups, gi, start_wall,
          last_progress_time, target_wall, wait_until, reached_at, busy,
          pressed_chars, calls, progress, disp, observed, stops, clears,
          set_at, set_in, cleared>>

----------------------------------------------------------------------------
(* Bounds of the model. *)

\* most groups (distinct times) in a chord list handed to play_events
MaxGroups == 2
\* longest time (clock units) the injections of one session may take in all
MaxSendDelay == 2
\* calls of stop_flag.set() and stop_flag.clear() that fall into one session
MaxFlagOps == 2

\* chord lists: notes C4 and D4, one or two events at a time, groups one
\* clock unit apart
ChordNotes == {60, 62}
ChordSizes == {1, 2}
ChordGaps == {1}
\* short lists: one or two events on C4, C#4 (a black key, no mapping entry)
\* or D4, three units apart, the first at 0 or 1
Notes == {60, 61, 62}
ShortGaps == {0, 3}
FirstTimes == {0, 1}
\* long lists: C4 on, and off eleven or twenty-one units later
LongGaps == {11, 21}

----------------------------------------------------------------------------
(* Parameters of play_events (defaults), in clock units of 5 ms. *)

spin_threshold == 1
sleep_chunk == 2
progress_interval == 10
\* 1e-9 s: below one clock unit, so |t - cur_t| < 1e-9 s iff |t - cur_t| < 1 unit
EPS == 1

----------------------------------------------------------------------------
(* Key mapping table. *)

None == "<None>"

SeqToSet(s) == {s[i] : i \in DOMAIN s}

Abs(x) == IF x < 0 THEN -x ELSE x

Min(a, b) == IF a <= b THEN a ELSE b

Max(a, b) == IF a >= b THEN a ELSE b

WHITE_OFFSETS == {0, 2, 4, 5, 7, 9, 11}

ROW1 == <<"A", "S", "D", "F", "G", "H", "J">>

ROW2 == <<"Q", "W", "E", "R", "T", "Y", "U">>

ROW3 == <<"1", "2", "3", "4", "5", "6", "7">>

IsWhite(n) == (n % 12) \in WHITE_OFFSETS

\* notes = [n for n in range(48, 84) if (n % 12) in _WHITE_OFFSETS]
WhiteNotes == SelectSeq([i \in 1..36 |-> 47 + i], IsWhite)

\* zip of the three groups of seven notes with the three rows
build_note_to_char_map ==
    LET rows == ROW1 \o ROW2 \o ROW3
        n == Min(Len(WhiteNotes), Len(rows))
    IN  [note \in {WhiteNotes[i] : i \in 1..n} |->
            rows[CHOOSE i \in 1..n : WhiteNotes[i] = note]]

NOTE_TO_CHAR == build_note_to_char_map

\* (mutant) a note without an entry is played as the white key below it
NoteToCharGet_KeyBelow(note) ==
    IF note \in DOMAIN NOTE_TO_CHAR THEN NOTE_TO_CHAR[note]
    ELSE IF note - 1 \in DOMAIN NOTE_TO_CHAR THEN NOTE_TO_CHAR[note - 1]
    ELSE None

\* _NOTE_TO_CHAR.get(note)
NoteToCharGet(note) ==
    IF note \in DOMAIN NOTE_TO_CHAR THEN NOTE_TO_CHAR[note] ELSE None

----------------------------------------------------------------------------
(* Input dispatcher. *)

Ord == [c \in SeqToSet(ROW1 \o ROW2 \o ROW3) |->
          CASE c = "A" -> 65 [] c = "S" -> 83 [] c = "D" -> 68 [] c = "F" -> 70
            [] c = "G" -> 71 [] c = "H" -> 72 [] c = "J" -> 74
            [] c = "Q" -> 81 [] c = "W" -> 87 [] c = "E" -> 69 [] c = "R" -> 82
            [] c = "T" -> 84 [] c = "Y" -> 89 [] c = "U" -> 85
            [] c = "1" -> 49 [] c = "2" -> 50 [] c = "3" -> 51 [] c = "4" -> 52
            [] c = "5" -> 53 [] c = "6" -> 54 [] c = "7" -> 55]

vk_for_char(ch) == IF ch = "" THEN 0 ELSE Ord[ch]

HasVk(ch) == vk_for_char(ch) # 0

\* the value SendInput returns for the batch `inputs` as call number n: the
\* number of events inserted, 0 when the input is blocked
SendInput(n, inputs) == IF n = fail_at THEN 0 ELSE Len(inputs)

\* one SendInput call: the batch `inputs`, issued for group g (0: the cleanup)
send_inputs(log, op, inputs, g) ==
    Append(log, [op |-> op, chars |-> inputs, group |-> g,
                 res |-> SendInput(Len(log) + 1, inputs)])

\* (mutant) one SendInput call per symbol, as press_key does
RECURSIVE press_keys_one_by_one(_, _, _)
press_keys_one_by_one(log, chars, g) ==
    IF chars = <<>> THEN log
    ELSE press_keys_one_by_one(
             IF HasVk(Head(chars))
             THEN send_inputs(log, "press", <<Head(chars)>>, g) ELSE log,
             Tail(chars), g)

press_keys_simultaneous(log, chars, g) ==
    LET inputs == SelectSeq(chars, HasVk)
    IN  IF inputs # <<>> THEN send_inputs(log, "press", inputs, g) ELSE log

release_keys_simultaneous(log, chars, g) ==
    LET inputs == SelectSeq(chars, HasVk)
    IN  IF inputs # <<>> THEN send_inputs(log, "release", inputs, g) ELSE log

----------------------------------------------------------------------------
(* Event grouper: the loop that builds `groups`. *)

\* (mutant) an event is compared with the event before it
RECURSIVE GroupLoopWithin_Chain(_, _, _, _, _, _)
GroupLoopWithin_Chain(eps, evs, i, cur_t, cur_group, acc) ==
    IF i > Len(evs)
    THEN Append(acc, [t |-> cur_t, evs |-> cur_group])
    ELSE LET prev == IF cur_group = <<>> THEN cur_t
                     ELSE cur_group[Len(cur_group)].time
         IN  IF Abs(evs[i].time - prev) < eps
             THEN GroupLoopWithin_Chain(eps, evs, i + 1, cur_t,
                                        Append(cur_group, evs[i]), acc)
             ELSE GroupLoopWithin_Chain(eps, evs, i + 1, evs[i].time,
                                        <<evs[i]>>,
                                        Append(acc, [t |-> cur_t,
                                                     evs |-> cur_group]))

\* lines 234-242 with the 1e-9 of line 236 written eps
RECURSIVE GroupLoopWithin(_, _, _, _, _, _)
GroupLoopWithin(eps, evs, i, cur_t, cur_group, acc) ==
    IF i > Len(evs)
    THEN Append(acc, [t |-> cur_t, evs |-> cur_group])
    ELSE IF Abs(evs[i].time - cur_t) < eps
         THEN GroupLoopWithin(eps, evs, i + 1, cur_t,
                              Append(cur_group, evs[i]), acc)
         ELSE GroupLoopWithin(eps, evs, i + 1, evs[i].time, <<evs[i]>>,
                              Append(acc, [t |-> cur_t, evs |-> cur_group]))

GroupLoop(evs, i, cur_t, cur_group, acc) ==
    GroupLoopWithin(EPS, evs, i, cur_t, cur_group, acc)

\* (mutant) the append after the loop is missing: the last group is lost
GroupEvents_DropLast(evs) ==
    LET g == GroupLoop(evs, 1, evs[1].time, <<>>, <<>>)
    IN  SubSeq(g, 1, Len(g) - 1)

GroupEvents(evs) == GroupLoop(evs, 1, evs[1].time, <<>>, <<>>)

----------------------------------------------------------------------------
(* Dispatch of one due group. *)

IsOff(e) == e.kind = "off"

IsOn(e) == e.kind = "on"

\* (mutant) line 301 is missing: a released symbol stays in pressed_chars
RECURSIVE OffLoop_NoDiscard(_, _, _, _)
OffLoop_NoDiscard(offs, i, pressed, rel) ==
    IF i > Len(offs)
    THEN [rel |-> rel, pressed |-> pressed]
    ELSE LET ch == NoteToCharGet(offs[i].note)
         IN  IF ch = None THEN OffLoop_NoDiscard(offs, i + 1, pressed, rel)
             ELSE IF ch \in pressed /\ ch \notin SeqToSet(rel)
                  THEN OffLoop_NoDiscard(offs, i + 1, pressed, Append(rel, ch))
                  ELSE OffLoop_NoDiscard(offs, i + 1, pressed, rel)

\* the loop over offs: release the mapped symbols that are held
RECURSIVE OffLoop(_, _, _, _)
OffLoop(offs, i, pressed, rel) ==
    IF i > Len(offs)
    THEN [rel |-> rel, pressed |-> pressed]
    ELSE LET ch == NoteToCharGet(offs[i].note)
         IN  IF ch = None THEN OffLoop(offs, i + 1, pressed, rel)
             ELSE IF ch \in pressed
                  THEN OffLoop(offs, i + 1, pressed \ {ch}, Append(rel, ch))
                  ELSE OffLoop(offs, i + 1, pressed, rel)

\* the loop over ons: the mapped symbols to press, in event order
RECURSIVE OnLoop(_, _)
OnLoop(ons, i) ==
    IF i > Len(ons) THEN <<>>
    ELSE LET ch == NoteToCharGet(ons[i].note)
         IN  IF ch = None THEN OnLoop(ons, i + 1)
             ELSE <<ch>> \o OnLoop(ons, i + 1)

CharsToPress(evlist) == OnLoop(SelectSeq(evlist, IsOn), 1)

\* (mutant) no retrigger release
MustRelease_None(chars_to_press, pressed) == <<>>

\* must_release_before_press
MustRelease(chars_to_press, pressed) ==
    LET Held(ch) == ch \in pressed
    IN  SelectSeq(chars_to_press, Held)

\* (mutant) the press is issued before the retrigger release
DispatchGroup_PressFirst(evlist, pressed, log, g) ==
    LET off == OffLoop(SelectSeq(evlist, IsOff), 1, pressed, <<>>)
        log1 == IF off.rel # <<>>
                THEN release_keys_simultaneous(log, off.rel, g) ELSE log
        chars_to_press == CharsToPress(evlist)
        must == MustRelease(chars_to_press, off.pressed)
        log2 == IF chars_to_press # <<>>
                THEN press_keys_simultaneous(log1, chars_to_press, g) ELSE log1
        log3 == IF must # <<>>
                THEN release_keys_simultaneous(log2, must, g) ELSE log2
    IN  [log |-> log3, pressed |-> off.pressed \cup SeqToSet(chars_to_press)]

\* (mutant) the Ons of the group are processed before its Offs
DispatchGroup_OnsFirst(evlist, pressed, log, g) ==
    LET chars_to_press == CharsToPress(evlist)
        must == MustRelease(chars_to_press, pressed)
        log1 == IF must # <<>>
                THEN release_keys_simultaneous(log, must, g) ELSE log
        log2 == IF chars_to_press # <<>>
                THEN press_keys_simultaneous(log1, chars_to_press, g) ELSE log1
        pressed2 == pressed \cup SeqToSet(chars_to_press)
        off == OffLoop(SelectSeq(evlist, IsOff), 1, pressed2, <<>>)
        log3 == IF off.rel # <<>>
                THEN release_keys_simultaneous(log2, off.rel, g) ELSE log2
    IN  [log |-> log3, pressed |-> off.pressed]

\* the calls of one group and the PressedKeySet after them
DispatchGroup(evlist, pressed, log, g) ==
    LET off == OffLoop(SelectSeq(evlist, IsOff), 1, pressed, <<>>)
        log1 == IF off.rel # <<>>
                THEN release_keys_simultaneous(log, off.rel, g) ELSE log
        chars_to_press == CharsToPress(evlist)
        must == MustRelease(chars_to_press, off.pressed)
        log2 == IF must # <<>>
                THEN release_keys_simultaneous(log1, must, g) ELSE log1
        pressed2 == off.pressed \ SeqToSet(must)
        log3 == IF chars_to_press # <<>>
                THEN press_keys_simultaneous(log2, chars_to_press, g) ELSE log2
    IN  [log |-> log3, pressed |-> pressed2 \cup SeqToSet(chars_to_press)]

\* list(pressed_chars): the held symbols in some order
RECURSIVE SetToSeq(_)
SetToSeq(S) ==
    IF S = {} THEN <<>>
    ELSE LET x == CHOOSE y \in S : TRUE IN <<x>> \o SetToSeq(S \ {x})

\* (mutant) the held symbols are not released
CleanupCalls_Skip(pressed, log) == log

\* (mutant) one release call per held symbol, as release_key does
RECURSIVE CleanupCalls_OneByOne(_, _)
CleanupCalls_OneByOne(pressed, log) ==
    IF pressed = {} THEN log
    ELSE LET x == CHOOSE y \in pressed : TRUE
         IN  CleanupCalls_OneByOne(pressed \ {x},
                                   send_inputs(log, "release", <<x>>, 0))

\* the final release of every held symbol
CleanupCalls(pressed, log) ==
    IF pressed # {} THEN release_keys_simultaneous(log, SetToSeq(pressed), 0)
    ELSE log

----------------------------------------------------------------------------
(* The event lists handed to play_events: sorted by time. *)

Ev(t, k, n) == [time |-> t, kind |-> k, note |-> n]

Body(notes) == [kind : {"on", "off"}, note : notes]

\* the events `body`, all at time t
At(body, t) == [i \in 1..Len(body) |-> Ev(t, body[i].kind, body[i].note)]

\* the chords that may sound at one time
Chords == UNION {[1..n -> Body(ChordNotes)] : n \in ChordSizes}

\* chord lists of k groups; the last group sounds at `last`
RECURSIVE ChordListsOf(_)
ChordListsOf(k) ==
    IF k = 1 THEN {[evs |-> At(c, 0), last |-> 0] : c \in Chords}
    ELSE {[evs |-> l.evs \o At(c, l.last + gap), last |-> l.last + gap] :
            l \in ChordListsOf(k - 1), c \in Chords, gap \in ChordGaps}

ChordLists == UNION {{l.evs : l \in ChordListsOf(k)} : k \in 1..MaxGroups}

ShortLists ==
    {<<Ev(first, b.kind, b.note)>> : b \in Body(Notes), first \in FirstTimes}
    \cup {<<Ev(first, b.kind, b.note), Ev(first + gap, c.kind, c.note)>> :
            b \in Body(Notes), c \in Body(Notes), first \in FirstTimes,
            gap \in ShortGaps}

LongLists ==
    {<<Ev(first, "on", 60), Ev(first + gap, "off", 60)>> :
        first \in FirstTimes, gap \in LongGaps}

\* the arguments (events, progress_callback is not None) of the sessions
Sessions ==
    ({<<>>} \X {FALSE}) \cup (ChordLists \X {FALSE}) \cup (ShortLists \X {FALSE})
        \cup (LongLists \X BOOLEAN)

----------------------------------------------------------------------------
(* MIDI compiler: midi_to_events and midi_total_length.  Times are exact,  *)
(* in microseconds; the streams below keep every tick delta a whole number *)
(* of microseconds at every tempo.                                         *)

\* a message of the merged stream: `time` is its delta in ticks
Msg(type, time, note, velocity, tempo) ==
    [type |-> type, time |-> time, note |-> note, velocity |-> velocity,
     tempo |-> tempo]

\* mido.tick2second(tick, ticks_per_beat, tempo), in microseconds
tick2second(tick, ticks_per_beat, tempo) == (tick * tempo) \div ticks_per_beat

\* current_tempo = 500000
DEFAULT_TEMPO == 500000

\* (mutant) the range test excludes its lower end
InRange_Above48(note) == 48 < note /\ note <= 83

\* 48 <= msg.note <= 83
InRange(note) == 48 <= note /\ note <= 83

Event(t, kind, note, velocity) ==
    [time |-> t, kind |-> kind, note |-> note, velocity |-> velocity]

\* (mutant) a note_on with velocity 0 is emitted as an On
Emit_ZeroVelocityOn(msg, abs_time, out) ==
    IF msg.type = "note_on"
    THEN IF InRange(msg.note)
         THEN Append(out, Event(abs_time, "on", msg.note, msg.velocity))
         ELSE out
    ELSE IF msg.type = "note_off"
         THEN IF InRange(msg.note)
              THEN Append(out, Event(abs_time, "off", msg.note, msg.velocity))
              ELSE out
         ELSE out

\* lines 178-186: the event a message appends to `events`, if any
Emit(msg, abs_time, out) ==
    IF msg.type = "note_on"
    THEN IF InRange(msg.note)
         THEN IF msg.velocity = 0
              THEN Append(out, Event(abs_time, "off", msg.note, 0))
              ELSE Append(out, Event(abs_time, "on", msg.note, msg.velocity))
         ELSE out
    ELSE IF msg.type = "note_off"
         THEN IF InRange(msg.note)
              THEN Append(out, Event(abs_time, "off", msg.note, msg.velocity))
              ELSE out
         ELSE out

\* (mutant) a tempo message's own delta is converted at the new tempo
Advance_NewTempo(msg, ticks_per_beat, current_tempo, abs_time) ==
    IF msg.time # 0
    THEN abs_time + tick2second(msg.time, ticks_per_beat,
                        IF msg.type = "set_tempo" THEN msg.tempo
                        ELSE current_tempo)
    ELSE abs_time

\* lines 169-171: abs_time after the delta of msg
Advance(msg, ticks_per_beat, current_tempo, abs_time) ==
    IF msg.time # 0
    THEN abs_time + tick2second(msg.time, ticks_per_beat, current_tempo)
    ELSE abs_time

\* (mutant) the scan stops as soon as the accumulator reaches max_time
PastMax_Reached(abs_time, max) == max # <<>> /\ abs_time >= max[1]

\* line 187: max_time is not None and abs_time > max_time
PastMax(abs_time, max) == max # <<>> /\ abs_time > max[1]

\* line 176: min_time is not None and abs_time < min_time
BeforeMin(abs_time, min) == min # <<>> /\ abs_time < min[1]

\* lines 167-188: the scan of the merged stream from message i on
RECURSIVE ScanLoop(_, _, _, _, _, _, _, _)
ScanLoop(msgs, i, ticks_per_beat, current_tempo, abs_time, min, max, out) ==
    IF i > Len(msgs) THEN [events |-> out, abs_time |-> abs_time]
    ELSE LET msg == msgs[i]
             t == Advance(msg, ticks_per_beat, current_tempo, abs_time)
         IN  IF msg.type = "set_tempo"
             THEN ScanLoop(msgs, i + 1, ticks_per_beat, msg.tempo, t, min, max,
                           out)
             ELSE IF BeforeMin(t, min)
             THEN ScanLoop(msgs, i + 1, ticks_per_beat, current_tempo, t, min,
                           max, out)
             ELSE LET out1 == Emit(msg, t, out)
                  IN  IF PastMax(t, max)
                      THEN [events |-> out1, abs_time |-> t]
                      ELSE ScanLoop(msgs, i + 1, ticks_per_beat, current_tempo,
                                    t, min, max, out1)

\* lines 189-192: the two post-filters
PostFilter(evs, min, max) ==
    LET NotBefore(e) == min = <<>> \/ e.time >= min[1]
        NotAfter(e) == max = <<>> \/ e.time <= max[1]
    IN  SelectSeq(SelectSeq(evs, NotBefore), NotAfter)

\* (mutant) an unstable sort: an event goes before the events of its own time
RECURSIVE InsertByTime_BeforeTies(_, _)
InsertByTime_BeforeTies(e, sorted) ==
    IF sorted = <<>> THEN <<e>>
    ELSE IF sorted[Len(sorted)].time < e.time THEN Append(sorted, e)
    ELSE Append(InsertByTime_BeforeTies(e, SubSeq(sorted, 1, Len(sorted) - 1)),
                sorted[Len(sorted)])

\* e put into the sorted list behind every event that is not later than it
RECURSIVE InsertByTime(_, _)
InsertByTime(e, sorted) ==
    IF sorted = <<>> THEN <<e>>
    ELSE IF sorted[Len(sorted)].time <= e.time THEN Append(sorted, e)
    ELSE Append(InsertByTime(e, SubSeq(sorted, 1, Len(sorted) - 1)),
                sorted[Len(sorted)])

\* line 193: events.sort(key=lambda x: x[0]), a stable sort
RECURSIVE SortByTime(_, _)
SortByTime(evs, sorted) ==
    IF evs = <<>> THEN sorted
    ELSE SortByTime(Tail(evs), InsertByTime(Head(evs), sorted))

\* the list `events` before the sort of line 193
Unsorted(m, min, max) ==
    PostFilter(ScanLoop(m.msgs, 1, m.ticks_per_beat, DEFAULT_TEMPO, 0, min, max,
                        <<>>).events, min, max)

midi_to_events(m, min, max) == SortByTime(Unsorted(m, min, max), <<>>)

\* lines 340-344: the accumulation of midi_total_length from message i on
RECURSIVE TotalLoop(_, _, _, _, _)
TotalLoop(msgs, i, ticks_per_beat, current_tempo, acc) ==
    IF i > Len(msgs) THEN acc
    ELSE LET t == IF msgs[i].time # 0
                  THEN acc + tick2second(msgs[i].time, ticks_per_beat,
                                         current_tempo)
                  ELSE acc
         IN  TotalLoop(msgs, i + 1, ticks_per_beat,
                       IF msgs[i].type = "set_tempo" THEN msgs[i].tempo
                       ELSE current_tempo, t)

\* (mutant) every delta is converted at the default tempo
RECURSIVE TotalLoop_DefaultTempo(_, _, _)
TotalLoop_DefaultTempo(msgs, i, ticks_per_beat) ==
    IF i > Len(msgs) THEN 0
    ELSE tick2second(msgs[i].time, ticks_per_beat, DEFAULT_TEMPO)
           + TotalLoop_DefaultTempo(msgs, i + 1, ticks_per_beat)

midi_total_length_DefaultTempo(m) ==
    TotalLoop_DefaultTempo(m.msgs, 1, m.ticks_per_beat)

midi_total_length(m) == TotalLoop(m.msgs, 1, m.ticks_per_beat, DEFAULT_TEMPO, 0)

\* no file is compiled during a playback session
CompilerIdle ==
    /\ mid = [ticks_per_beat |-> 480, msgs |-> <<>>]
    /\ min_time = <<>>
    /\ max_time = <<>>
    /\ compiled = <<>>
    /\ total = <<>>
    /\ recompiled = <<>>

\* the default key mapping is in force; no agent and no GUI is running
\* the scripts around the agents: the controller, the library loop
scripts == <<controller, library, ensemble>>

ScriptsIdle == controller = <<>> /\ library = <<>> /\ ensemble = <<>>

AppsIdle ==
    /\ key_txt = <<>>
    /\ note_to_char = <<>>
    /\ fine_events = <<>>
    /\ fine_groups = <<>>
    /\ track = <<>>
    /\ selected = TRUE
    /\ new_track = <<>>
    /\ agent = <<>>
    /\ ScriptsIdle
    /\ gui = <<>>

----------------------------------------------------------------------------
(* The play_events thread. *)

\* the MIDI compiler's variables, which the playback never touches
compiler == <<mid, min_time, max_time, compiled, total, recompiled>>

\* the variables of what runs around a playback session: the import of the
\* key mapping, the grouper at fine time resolution, the agent and the GUI
apps == <<key_txt, note_to_char, fine_events, fine_groups, track, selected,
          new_track, agent, gui, scripts>>

\* what the call was made with
call == <<events, has_cb, fail_at, compiler, apps>>

args == <<call, entry_set>>

flag == <<stop_flag, stops, clears, set_at, set_in, cleared>>

InitWith(evs, cb) ==
    /\ events = evs
    /\ has_cb = cb
    /\ entry_set = FALSE
    /\ stop_flag = FALSE
    /\ now = 0
    /\ pc = "start"
    /\ groups = <<>>
    /\ gi = 1
    /\ start_wall = 0
    /\ last_progress_time = 0
    /\ target_wall = 0
    /\ wait_until = 0
    /\ reached_at = 0
    /\ busy = 0
    /\ pressed_chars = {}
    /\ calls = <<>>
    /\ progress = <<>>
    /\ disp = <<>>
    /\ observed = FALSE
    /\ stops = 0
    /\ clears = 0
    /\ set_at = -1
    /\ set_in = 0
    /\ cleared = FALSE

\* the sessions in which every injection succeeds
Init ==
    \E a \in Sessions :
        InitWith(a[1], a[2]) /\ fail_at = 0 /\ CompilerIdle /\ AppsIdle

\* lines 214-248: empty list, grouping, reference clock
Start ==
    /\ pc = "start"
    /\ IF events = <<>>
       THEN /\ pc' = "done"
            /\ UNCHANGED <<groups, start_wall, last_progress_time>>
       ELSE /\ groups' = GroupEvents(events)
            /\ start_wall' = now
            /\ last_progress_time' = now
            /\ pc' = "for_top"
    /\ entry_set' = stop_flag
    /\ UNCHANGED <<call, flag, now, gi, target_wall, wait_until, reached_at,
                   busy, pressed_chars, calls, progress, disp, observed>>

\* lines 250-254: next group, stop check, deadline
ForTop ==
    /\ pc = "for_top"
    /\ IF gi > Len(groups)
       THEN /\ pc' = "cleanup"
            /\ UNCHANGED <<target_wall, reached_at, observed>>
       ELSE IF stop_flag
            THEN /\ pc' = "cleanup"
                 /\ observed' = TRUE
                 /\ UNCHANGED <<target_wall, reached_at>>
            ELSE /\ target_wall' = start_wall + (groups[gi].t - groups[1].t)
                 /\ reached_at' = now
                 /\ pc' = "while_top"
                 /\ UNCHANGED observed
    /\ UNCHANGED <<args, flag, now, groups, gi, start_wall, last_progress_time,
                   wait_until, busy, pressed_chars, calls, progress, disp>>

\* where the wait loop goes after reading the clock: lines 268-276
AfterClock(to_wait) ==
    IF to_wait <= 0 THEN "post_wait"
    ELSE IF to_wait > spin_threshold THEN "waiting" ELSE "spin"

\* (mutant) every wait asks for a whole sleep_chunk
WaitTime_Chunk(to_wait) == sleep_chunk

\* wait_time of line 273
WaitTime(to_wait) == Min(sleep_chunk, Max(0, to_wait - spin_threshold))

\* (mutant) the callback is invoked in every iteration of the wait loop
ProgressDue_EveryIteration(t, last) == t - last >= 0

\* line 262: the callback is due
ProgressDue(t, last) == t - last >= progress_interval

\* (mutant) lines 263-267 without the try/except: an exception of the
\* callback escapes before last_progress_time is assigned
CallbackBlock_NoExcept(raises, last, t) ==
    [escaped |-> raises, last_progress_time |-> IF raises THEN last ELSE t]

\* lines 263-267: the call of the callback (which raises or not) inside
\* try/except Exception: pass, then last_progress_time = now
CallbackBlock(raises, last, t) ==
    [escaped |-> FALSE, last_progress_time |-> t]

\* lines 257-275: one iteration of the wait loop, up to the call of Event.wait
WhileTop ==
    /\ pc = "while_top"
    /\ IF stop_flag
       THEN /\ pc' = "post_wait"
            /\ observed' = TRUE
            /\ UNCHANGED <<last_progress_time, progress, wait_until>>
       ELSE LET to_wait == target_wall - now
            IN  /\ IF has_cb /\ ProgressDue(now, last_progress_time)
                   THEN \E raises \in BOOLEAN :
                          LET cb == CallbackBlock(raises, last_progress_time, now)
                          IN  /\ progress' = Append(progress,
                                     [value |-> now - start_wall + groups[1].t,
                                      at |-> now, raised |-> raises])
                              /\ last_progress_time' = cb.last_progress_time
                              /\ pc' = IF cb.escaped THEN "raised"
                                       ELSE AfterClock(to_wait)
                   ELSE /\ UNCHANGED <<progress, last_progress_time>>
                        /\ pc' = AfterClock(to_wait)
                /\ wait_until' = IF AfterClock(to_wait) = "waiting"
                                 THEN now + WaitTime(to_wait) ELSE wait_until
                /\ UNCHANGED observed
    /\ UNCHANGED <<args, flag, now, groups, gi, start_wall, target_wall,
                   reached_at, busy, pressed_chars, calls, disp>>

\* Event.wait(wait_time) is over: the flag is set or the timeout has passed
WaitOver == stop_flag \/ now >= wait_until

\* line 275: stop_flag.wait(wait_time) returns
WaitReturn ==
    /\ pc = "waiting"
    /\ WaitOver
    /\ pc' = "while_top"
    /\ UNCHANGED <<args, flag, now, groups, gi, start_wall, last_progress_time,
                   target_wall, wait_until, reached_at, busy, pressed_chars,
                   calls, progress, disp, observed>>

\* (mutant) the busy loop without the clock check of lines 282-283
Spin_NoDeadline ==
    /\ pc = "spin"
    /\ stop_flag
    /\ observed' = TRUE
    /\ pc' = "post_wait"
    /\ UNCHANGED <<args, flag, now, groups, gi, start_wall, last_progress_time,
                   target_wall, wait_until, reached_at, busy, pressed_chars,
                   calls, progress, disp>>

\* lines 279-284: the busy loop ends when the flag is set or the deadline is reached
Spin ==
    /\ pc = "spin"
    /\ stop_flag \/ now >= target_wall
    /\ observed' = (observed \/ stop_flag)
    /\ pc' = "post_wait"
    /\ UNCHANGED <<args, flag, now, groups, gi, start_wall, last_progress_time,
                   target_wall, wait_until, reached_at, busy, pressed_chars,
                   calls, progress, disp>>

\* (mutant) lines 286-287 are missing: the group is dispatched unchecked
PostWait_NoCheck ==
    /\ pc = "post_wait"
    /\ pc' = "dispatch"
    /\ UNCHANGED <<args, flag, now, groups, gi, start_wall, last_progress_time,
                   target_wall, wait_until, reached_at, busy, pressed_chars,
                   calls, progress, disp, observed>>

\* lines 286-287: the stop check after the wait
PostWait ==
    /\ pc = "post_wait"
    /\ IF stop_flag
       THEN pc' = "cleanup" /\ observed' = TRUE
       ELSE pc' = "dispatch" /\ UNCHANGED observed
    /\ UNCHANGED <<args, flag, now, groups, gi, start_wall, last_progress_time,
                   target_wall, wait_until, reached_at, busy, pressed_chars,
                   calls, progress, disp>>

\* lines 289-325: the dispatch of the group, which asks for the flag nowhere
Dispatch ==
    /\ pc = "dispatch"
    /\ LET d == DispatchGroup(groups[gi].evs, pressed_chars, calls, gi)
       IN  /\ calls' = d.log
           /\ pressed_chars' = d.pressed
           /\ disp' = Append(disp, [g |-> gi,
                                    early |-> now < target_wall,
                                    overdue |-> reached_at >= target_wall,
                                    late |-> reached_at > target_wall,
                                    imm |-> now = reached_at,
                                    set |-> stop_flag])
           /\ gi' = gi + 1
           /\ pc' = "for_top"
    /\ UNCHANGED <<args, flag, now, groups, start_wall, last_progress_time,
                   target_wall, wait_until, reached_at, busy, progress,
                   observed>>

\* lines 327-331: release whatever is still held, then return
Cleanup ==
    /\ pc = "cleanup"
    /\ calls' = CleanupCalls(pressed_chars, calls)
    /\ pressed_chars' = {}
    /\ pc' = "done"
    /\ UNCHANGED <<args, flag, now, groups, gi, start_wall, last_progress_time,
                   target_wall, wait_until, reached_at, busy, progress, disp,
                   observed>>

----------------------------------------------------------------------------
(* The caller's thread and the clock. *)

Waiting == pc \in {"waiting", "spin"}

\* core.stop(stop_flag): set the flag and wake a thread blocked in wait()
\* (setting a flag that is already set changes nothing and is left out)
Stop ==
    /\ pc # "done"
    /\ ~stop_flag
    /\ stops + clears < MaxFlagOps
    /\ stops' = stops + 1
    /\ stop_flag' = TRUE
    /\ wait_until' = IF pc = "waiting" THEN Min(wait_until, now) ELSE wait_until
    /\ IF Waiting /\ set_at < 0
       THEN set_at' = now /\ cleared' = FALSE
       ELSE UNCHANGED <<set_at, cleared>>
    /\ set_in' = IF pc = "dispatch" THEN gi ELSE set_in
    /\ UNCHANGED <<args, clears, now, pc, groups, gi, start_wall,
                   last_progress_time, target_wall, reached_at, busy,
                   pressed_chars, calls, progress, disp, observed>>

\* agent.cnt: stop_flag.clear(), three seconds after some stop request (one
\* made during this session or before it began)
Clear ==
    /\ pc # "done"
    /\ stop_flag
    /\ stops + clears < MaxFlagOps
    /\ clears' = clears + 1
    /\ stop_flag' = FALSE
    /\ cleared' = (cleared \/ set_at >= 0)
    /\ UNCHANGED <<args, stops, set_at, set_in, now, pc, groups, gi, start_wall,
                   last_progress_time, target_wall, wait_until, reached_at,
                   busy, pressed_chars, calls, progress, disp, observed>>

\* the clock advances while the thread is blocked, spins or injects a group
TimePasses ==
    \/ pc = "waiting" /\ ~WaitOver
    \/ pc = "spin" /\ ~stop_flag /\ now < target_wall
    \/ pc = "for_top" /\ gi \in 2..Len(groups) /\ busy < MaxSendDelay

Tick ==
    /\ TimePasses
    /\ now' = now + 1
    /\ busy' = IF pc = "for_top" THEN busy + 1 ELSE busy
    /\ UNCHANGED <<args, flag, pc, groups, gi, start_wall, last_progress_time,
                   target_wall, wait_until, reached_at, pressed_chars,
                   calls, progress, disp, observed>>

Next ==
    \/ Start
    \/ ForTop
    \/ WhileTop
    \/ WaitReturn
    \/ Spin
    \/ PostWait
    \/ Dispatch
    \/ Cleanup
    \/ Stop
    \/ Clear
    \/ Tick

Spec == Init /\ [][Next]_vars

----------------------------------------------------------------------------
(* What the recorded calls say about the device. *)

IsPressOf(c, s) == c.op = "press" /\ c.res # 0 /\ s \in SeqToSet(c.chars)

IsReleaseOf(c, s) ==
    c.op = "release" /\ c.res # 0 /\ s \in SeqToSet(c.chars)

\* the symbols that are down after the calls of `log`
DownOf(log) ==
    {s \in UNION {SeqToSet(log[i].chars) : i \in DOMAIN log} :
        \E i \in DOMAIN log :
            /\ IsPressOf(log[i], s)
            /\ \A j \in DOMAIN log : j > i => ~IsReleaseOf(log[j], s)}

\* the calls issued for group g (g = 0: the final cleanup)
CallsOf(g) == {i \in DOMAIN calls : calls[i].group = g}

\* the calls issued before the first call of group g
Before(g) ==
    SubSeq(calls, 1, (CHOOSE i \in CallsOf(g) : \A j \in CallsOf(g) : i <= j) - 1)

\* the calls of the groups, without the final cleanup
GroupCalls == SelectSeq(calls, LAMBDA c : c.group # 0)

MappedOns(evlist) ==
    {NOTE_TO_CHAR[evlist[i].note] :
        i \in {k \in DOMAIN evlist :
                 IsOn(evlist[k]) /\ evlist[k].note \in DOMAIN NOTE_TO_CHAR}}

MappedOffs(evlist) ==
    {NOTE_TO_CHAR[evlist[i].note] :
        i \in {k \in DOMAIN evlist :
                 IsOff(evlist[k]) /\ evlist[k].note \in DOMAIN NOTE_TO_CHAR}}

RECURSIVE Concat(_)
Concat(gs) == IF gs = <<>> THEN <<>> ELSE Head(gs).evs \o Concat(Tail(gs))

Returned == pc = "done"

Cancelled == Returned /\ observed

----------------------------------------------------------------------------
(* C1. Held-key invariant: when play_events returns, whether the flag was  *)
(* set at any moment or never, the PressedKeySet is empty and every symbol *)
(* that was pressed has been released by a later call: nothing is down.    *)
C1_HeldKeyInvariant ==
    Returned => pressed_chars = {} /\ DownOf(calls) = {}

\* a cancelled session that had pressed a symbol and released it in the cleanup
C1_Witness ==
    /\ Cancelled
    /\ \E i \in DOMAIN calls : calls[i].op = "press"
    /\ calls[Len(calls)].group = 0

(* C2. Off-before-On: among the calls of one group every release (explicit *)
(* Off or retrigger) comes before the press; no release follows the press. *)
C2_OffBeforeOn ==
    \A g \in 1..Len(groups) : \A i, j \in CallsOf(g) :
        calls[i].op = "release" /\ calls[j].op = "press" => i < j

\* a group with an explicit release, a retrigger release and a press
C2_Witness ==
    \E g \in 1..Len(groups) :
        /\ Cardinality({i \in CallsOf(g) : calls[i].op = "release"}) = 2
        /\ \E j \in CallsOf(g) : calls[j].op = "press"

(* C3. Atomic Off-batch: for one group at most one release call is issued, *)
(* carrying the explicit offs and the retrigger offs together.             *)
C3_AtomicOffBatch ==
    \A g \in 1..Len(groups) :
        Cardinality({i \in CallsOf(g) : calls[i].op = "release"}) <= 1

(* C4. Atomic On-batch and group partition: a dispatched group with mapped *)
(* Ons has exactly one press call, holding all its mapped On symbols; a    *)
(* group without them has none; and every call before the cleanup holds    *)
(* only symbols of the events of its own, dispatched, group.               *)
C4_AtomicOnBatch ==
    /\ \A k \in DOMAIN disp :
         LET g == disp[k].g
             presses == {i \in CallsOf(g) : calls[i].op = "press"}
             ons == MappedOns(groups[g].evs)
         IN  /\ Cardinality(presses) = IF ons = {} THEN 0 ELSE 1
             /\ \A i \in presses : SeqToSet(calls[i].chars) = ons
    /\ \A i \in DOMAIN calls :
         LET g == calls[i].group
         IN  g # 0 =>
               /\ \E k \in DOMAIN disp : disp[k].g = g
               /\ SeqToSet(calls[i].chars) \subseteq
                    IF calls[i].op = "press" THEN MappedOns(groups[g].evs)
                    ELSE MappedOns(groups[g].evs) \cup MappedOffs(groups[g].evs)

\* a chord of two different symbols pressed by one call
C4_Witness ==
    \E i \in DOMAIN calls :
        calls[i].op = "press" /\ Cardinality(SeqToSet(calls[i].chars)) = 2

(* C5. With the flag never set, the groups are dispatched one after the    *)
(* other in the order of the list, each exactly once, their times strictly *)
(* ascending and their events together the whole list; a group that is     *)
(* overdue when the loop reaches it is dispatched at once, not skipped.    *)
C5_EveryGroupOnceInOrder ==
    /\ \A k \in DOMAIN disp : disp[k].g = k
    /\ \A k \in DOMAIN disp : disp[k].overdue => disp[k].imm
    /\ Returned /\ stops = 0 /\ events # <<>> =>
         /\ Len(disp) = Len(groups)
         /\ Concat(groups) = events
         /\ \A g, h \in DOMAIN groups : g < h => groups[g].t < groups[h].t

\* an uncancelled session whose second group was reached after its deadline
C5_Witness ==
    /\ Returned /\ stops = 0
    /\ Len(disp) = 2 /\ disp[2].late

(* C6. Cancellation: once an is_set() check of the scheduler has seen the  *)
(* flag set, no press and no release is issued for the current or a later  *)
(* group: the only call that may follow is the final cleanup release.      *)
C6_ObservedStopIsFinal ==
    [][observed /\ calls' # calls => pc = "cleanup"]_vars

(* C7. Cancellation latency: when the flag is set while the scheduler      *)
(* waits for a deadline (sleeping or spinning), play_events returns within *)
(* sleep_chunk + spin_threshold of that moment, with every symbol released.*)
C7_CancelLatency ==
    Returned /\ set_at >= 0 =>
        /\ now - set_at <= sleep_chunk + spin_threshold
        /\ DownOf(calls) = {}

\* the same, for the sessions in which the caller does not clear the flag
\* after that set: this holds
C7_CancelLatencyUncleared ==
    Returned /\ set_at >= 0 /\ ~cleared =>
        /\ now - set_at <= sleep_chunk + spin_threshold
        /\ observed
        /\ DownOf(calls) = {}

(* C8. No early dispatch: every dispatched group is dispatched at a clock  *)
(* reading not before origin + (group.time - first_group.time), whatever   *)
(* the caller does with the stop flag and whenever.                        *)
C8_NoEarlyDispatch ==
    \A k \in DOMAIN disp : ~disp[k].early

\* the same, once no is_set() check has seen the flag set: this holds
C8_NoEarlyDispatchUnobserved ==
    \A k \in DOMAIN disp : ~observed => ~disp[k].early

(* C9. Retrigger: when a group holds an On for a symbol that is down and   *)
(* no Off for it, the press call of the group is immediately preceded by a *)
(* release call of the group that holds the symbol; for two Ons of note 60 *)
(* one after the other the calls are press, release, press (and cleanup).  *)
RetriggerScenario == <<Ev(0, "on", 60), Ev(1, "on", 60)>>

C9_Retrigger ==
    /\ \A i \in DOMAIN calls :
         LET g == calls[i].group
         IN  calls[i].op = "press" =>
               \A s \in SeqToSet(calls[i].chars) :
                   s \in DownOf(Before(g)) /\ s \notin MappedOffs(groups[g].evs)
                   => /\ i > 1
                      /\ calls[i - 1].group = g
                      /\ IsReleaseOf(calls[i - 1], s)
    /\ events = RetriggerScenario /\ Returned /\ stops = 0 =>
         calls = << [op |-> "press", chars |-> <<"Q">>, group |-> 1,
                     res |-> 1],
                    [op |-> "release", chars |-> <<"Q">>, group |-> 2,
                     res |-> 1],
                    [op |-> "press", chars |-> <<"Q">>, group |-> 2,
                     res |-> 1],
                    [op |-> "release", chars |-> <<"Q">>, group |-> 0,
                     res |-> 1] >>

\* the scenario played to its end
C9_Witness ==
    events = RetriggerScenario /\ Returned /\ stops = 0

(* C10. Shutdown, as claimed: on every termination path after the loop     *)
(* exactly one final release call is issued.                               *)
C10_ExactlyOneFinalRelease ==
    Returned /\ events # <<>> => Cardinality(CallsOf(0)) = 1

(* C10, amended: at most one final release call is issued; it is issued    *)
(* exactly when the PressedKeySet is not empty at that moment, is the last *)
(* call, and holds every symbol of the PressedKeySet, each once.           *)
C10_FinalRelease ==
    /\ pc = "cleanup" => pressed_chars = DownOf(calls)
    /\ Returned =>
         /\ Cardinality(CallsOf(0)) = IF DownOf(GroupCalls) = {} THEN 0 ELSE 1
         /\ \A i \in CallsOf(0) :
              /\ i = Len(calls)
              /\ calls[i].op = "release"
              /\ SeqToSet(calls[i].chars) = DownOf(GroupCalls)
              /\ Len(calls[i].chars) = Cardinality(DownOf(GroupCalls))

\* a session that ends with two symbols held and releases both in one call
C10_Witness ==
    /\ Returned
    /\ CallsOf(0) # {}
    /\ Len(calls[Len(calls)].chars) = 2

----------------------------------------------------------------------------
(* Sessions in which the OS refuses one batch: SendInput returns 0 for the *)
(* call number fail_at.                                                    *)

\* the latest call that may be refused
MaxFailAt == 2

InjectionSessions == (ChordLists \cup ShortLists) \X (1..MaxFailAt)

InitInjection ==
    \E a \in InjectionSessions :
        InitWith(a[1], FALSE) /\ fail_at = a[2] /\ CompilerIdle /\ AppsIdle

SpecInjection == InitInjection /\ [][Next]_vars

\* the calls for which SendInput reported that nothing was inserted
FailedCalls == {i \in DOMAIN calls : calls[i].res = 0}

(* C11. InjectionFailure is fatal and propagated: once SendInput has       *)
(* reported that a batch was not inserted, no call of a later group (and   *)
(* no cleanup call) is issued, and play_events does not return normally.   *)
C11_InjectionFailureFatal ==
    \A i \in FailedCalls :
        /\ ~Returned
        /\ \A j \in DOMAIN calls : j > i => calls[j].group = calls[i].group

----------------------------------------------------------------------------
(* Progress callback. *)

\* the calls of a session that has delivered the groups i..k of gs, starting
\* with the symbols `pressed` held and the calls `log` made
RECURSIVE PlayGroups(_, _, _, _, _)
PlayGroups(gs, i, k, pressed, log) ==
    IF i > k THEN [log |-> log, pressed |-> pressed]
    ELSE LET d == DispatchGroup(gs[i].evs, pressed, log, i)
         IN  PlayGroups(gs, i + 1, k, d.pressed, d.log)

\* all calls of a session that returns after delivering its first k groups
DeliveredCalls(k) ==
    LET d == PlayGroups(groups, 1, k, {}, <<>>)
    IN  CleanupCalls(d.pressed, d.log)

\* the callback was invoked in this step
CallbackInvoked == Len(progress') = Len(progress) + 1

(* C12. CallbackFault is absorbed: play_events never ends with the         *)
(* exception of the callback; a step that invokes the callback leaves the  *)
(* thread in the state a callback that does not raise leaves it in (the    *)
(* clock reading stored, the wait loop continued, no call issued), whether *)
(* the callback raised or not; and the calls of a returned session are     *)
(* those of its delivered groups and the cleanup, all groups when the flag *)
(* was never set.                                                          *)
C12_CallbackFaultAbsorbed ==
    /\ [](pc # "raised")
    /\ [][CallbackInvoked =>
            /\ last_progress_time' = now
            /\ pc' = AfterClock(target_wall - now)
            /\ UNCHANGED <<calls, pressed_chars, groups, gi, start_wall,
                           target_wall, stop_flag, observed, disp>>]_vars
    /\ [](Returned /\ events # <<>> =>
            /\ calls = DeliveredCalls(Len(disp))
            /\ stops = 0 => Len(disp) = Len(groups))

\* a session whose callback raised, and which then delivered its last group
\* and returned with every group delivered
C12_Witness ==
    /\ Returned
    /\ \E k \in DOMAIN progress : progress[k].raised
    /\ Len(disp) = Len(groups)
    /\ Len(calls) = 2

(* C13. Progress reporting: the values given to successive invocations of  *)
(* the callback in one session never decrease, and two successive          *)
(* invocations are at least progress_interval apart on the clock.          *)
C13_ProgressReporting ==
    \A k \in 1..(Len(progress) - 1) :
        /\ progress[k + 1].value >= progress[k].value
        /\ progress[k + 1].at - progress[k].at >= progress_interval

\* a session that has invoked the callback twice
C13_Witness == Len(progress) >= 2

----------------------------------------------------------------------------
(* Termination. *)

\* the steps of the play_events thread
Thread ==
    Start \/ ForTop \/ WhileTop \/ WaitReturn \/ Spin \/ PostWait \/ Dispatch
        \/ Cleanup

\* the thread is scheduled whenever it can run, and the clock keeps advancing
LiveSpec == Spec /\ WF_vars(Thread) /\ WF_vars(Tick)

\* the deadline of the last group
LastDeadline == start_wall + (groups[Len(groups)].t - groups[1].t)

(* C14. start() blocks until Finished or Cancelled and always gets there:  *)
(* while the clock keeps advancing play_events eventually returns, and     *)
(* when it has returned either the flag was set or the clock has reached   *)
(* the deadline of the last group.                                         *)
C14_Termination ==
    /\ <>Returned
    /\ [](Returned /\ events # <<>> => stops > 0 \/ now >= LastDeadline)

\* a session that returned with the flag never set, after sleeping in
\* Event.wait and spinning up to the deadline of its last group
C14_Witness ==
    /\ Returned
    /\ stops = 0
    /\ Len(groups) = 2
    /\ now >= 3
    /\ now = LastDeadline

----------------------------------------------------------------------------
(* The compiler on its own: a file is drawn, then midi_to_events and       *)
(* midi_total_length are applied to it.                                    *)

\* most messages in a timing stream, and in a pitch stream
MaxMsgs == 3
MaxPitchMsgs == 2

TicksPerBeat == {480}
Deltas == {0, 240}
Tempos == {250000, 1000000}
\* pitches around the two ends of the range
Pitches == {47, 48, 83, 84}
WindowTimes == {250000, 500000}

\* timing streams: C4 on / on with velocity 0 / off, tempo changes and a
\* message of another type, each zero or 240 ticks after the one before
TimingMsgs ==
    {Msg("note_on", d, 60, 100, 0) : d \in Deltas}
    \cup {Msg("note_on", d, 60, 0, 0) : d \in Deltas}
    \cup {Msg("note_off", d, 60, 64, 0) : d \in Deltas}
    \cup {Msg("control_change", d, 0, 0, 0) : d \in Deltas}
    \cup {Msg("set_tempo", d, 0, 0, tp) : d \in Deltas, tp \in Tempos}

\* pitch streams: note messages at the ends of the range, all at tick 0
PitchMsgs ==
    {Msg("note_on", 0, n, 100, 0) : n \in Pitches}
    \cup {Msg("note_off", 0, n, 64, 0) : n \in Pitches}

StreamsOf(S, n) == UNION {[1..k -> S] : k \in 0..n}

Files ==
    {[ticks_per_beat |-> tpb, msgs |-> ms] :
        tpb \in TicksPerBeat,
        ms \in StreamsOf(TimingMsgs, MaxMsgs) \cup StreamsOf(PitchMsgs, MaxPitchMsgs)}

\* the windows a file is compiled with: any of the window times or None on
\* either side, and [0, midi_total_length(mid)] as the callers pass it
WindowsOf(m) ==
    (({<<>>} \cup {<<t>> : t \in WindowTimes})
        \X ({<<>>} \cup {<<t>> : t \in WindowTimes}))
    \cup {<< <<0>>, <<midi_total_length(m)>> >>}

\* the variables of the playback session
player == <<events, has_cb, fail_at, entry_set, stop_flag, now, pc, groups, gi,
            start_wall, last_progress_time, target_wall, wait_until,
            reached_at, busy, pressed_chars, calls, progress, disp, observed,
            stops, clears, set_at, set_in, cleared>>

InitCompiler ==
    /\ \E m \in Files : \E w \in WindowsOf(m) :
          mid = m /\ min_time = w[1] /\ max_time = w[2]
    /\ compiled = <<>>
    /\ total = <<>>
    /\ recompiled = <<>>
    /\ InitWith(<<>>, FALSE)
    /\ fail_at = 0
    /\ AppsIdle

\* (mutant) a merge that writes the absolute ticks into the messages of the
\* file itself
RECURSIVE AbsoluteTicks(_, _, _)
AbsoluteTicks(msgs, i, acc) ==
    IF i > Len(msgs) THEN <<>>
    ELSE <<[msgs[i] EXCEPT !.time = acc + @]>>
         \o AbsoluteTicks(msgs, i + 1, acc + msgs[i].time)

AfterCompile_InPlace(m) == [m EXCEPT !.msgs = AbsoluteTicks(@, 1, 0)]

\* the file after midi_to_events has returned: line 165 reads the tracks
\* into a new merged track, and nothing in lines 161-194 assigns to mid or to
\* a message
AfterCompile(m) == m

\* events = midi_to_events(mid, min_time, max_time)
Compile ==
    /\ compiled = <<>>
    /\ compiled' = <<midi_to_events(mid, min_time, max_time)>>
    /\ mid' = AfterCompile(mid)
    /\ UNCHANGED <<min_time, max_time, total, recompiled, player, apps>>

\* a second call with the same arguments
CompileAgain ==
    /\ compiled # <<>>
    /\ recompiled = <<>>
    /\ recompiled' = <<midi_to_events(mid, min_time, max_time)>>
    /\ mid' = AfterCompile(mid)
    /\ UNCHANGED <<min_time, max_time, compiled, total, player, apps>>

\* total = midi_total_length(mid)
TotalLength ==
    /\ total = <<>>
    /\ total' = <<midi_total_length(mid)>>
    /\ UNCHANGED <<mid, min_time, max_time, compiled, recompiled, player,
                   apps>>

NextCompiler == Compile \/ CompileAgain \/ TotalLength

SpecCompiler == InitCompiler /\ [][NextCompiler]_vars

----------------------------------------------------------------------------
(* What the compiled list is measured against. *)

Unwindowed == min_time = <<>> /\ max_time = <<>>

\* the compile of the same file with no window
Whole == midi_to_events(mid, <<>>, <<>>)

IsNoteMsg(msg) == msg.type \in {"note_on", "note_off"}

InPitchWindow(n) == n \in 48..83

\* the positions of the in-range note messages in the stream, in order
NoteIdx ==
    LET Retained(i) == IsNoteMsg(mid.msgs[i]) /\ InPitchWindow(mid.msgs[i].note)
    IN  SelectSeq([i \in 1..Len(mid.msgs) |-> i], Retained)

\* the tempo in force before message i: that of the last tempo message
\* before it, 500000 when there is none
TempoBefore(i) ==
    LET S == {j \in 1..(i - 1) : mid.msgs[j].type = "set_tempo"}
    IN  IF S = {} THEN 500000
        ELSE mid.msgs[CHOOSE j \in S : \A k \in S : k <= j].tempo

\* sum over the messages 1..i of delta_ticks * tempo_us / ticks_per_beat
RECURSIVE TimeOf(_)
TimeOf(i) ==
    IF i = 0 THEN 0
    ELSE TimeOf(i - 1)
           + (mid.msgs[i].time * TempoBefore(i)) \div mid.ticks_per_beat

Count(seq, P(_)) == Len(SelectSeq(seq, P))

(* C15. Tempo-aware timing: the time of every compiled event is the sum,   *)
(* over the messages up to and including its own, of delta_ticks *         *)
(* tempo_us / ticks_per_beat microseconds at the tempo in force before     *)
(* each message (500000 until the first tempo message); a note_on at       *)
(* absolute tick 480 with ticks_per_beat 480 and no tempo message is at    *)
(* 0.5 s.                                                                  *)
C15_TempoAwareTiming ==
    compiled # <<>> =>
        LET out == compiled[1]
        IN  /\ \A k \in DOMAIN out :
                  \E j \in DOMAIN NoteIdx : out[k].time = TimeOf(NoteIdx[j])
            /\ Unwindowed =>
                  \A k \in DOMAIN out :
                      k <= Len(NoteIdx) /\ out[k].time = TimeOf(NoteIdx[k])
            /\ (/\ Unwindowed
                /\ mid.msgs = <<Msg("control_change", 240, 0, 0, 0),
                                Msg("note_on", 240, 60, 100, 0)>>)
                  => out = <<Event(500000, "on", 60, 100)>>

\* a tempo message 240 ticks into the file, and a note 240 ticks after it
C15_Witness ==
    /\ compiled # <<>>
    /\ Unwindowed
    /\ mid.msgs = <<Msg("set_tempo", 240, 0, 0, 1000000),
                    Msg("note_on", 240, 60, 100, 0)>>
    /\ compiled[1] = <<Event(750000, "on", 60, 100)>>

(* C16. Event kinds: the compile without a window has exactly one event    *)
(* per in-range note message, in stream order, and none for any other      *)
(* message: note_on with velocity 0 gives Off, note_on with velocity > 0   *)
(* gives On with that velocity, note_off gives Off.                        *)
C16_EventKinds ==
    compiled # <<>> /\ Unwindowed =>
        LET out == compiled[1]
        IN  /\ Len(out) = Len(NoteIdx)
            /\ \A k \in DOMAIN out :
                  LET msg == mid.msgs[NoteIdx[k]]
                  IN  /\ out[k].note = msg.note
                      /\ msg.type = "note_on" /\ msg.velocity = 0
                            => out[k].kind = "off"
                      /\ msg.type = "note_on" /\ msg.velocity > 0
                            => out[k].kind = "on"
                               /\ out[k].velocity = msg.velocity
                      /\ msg.type = "note_off" => out[k].kind = "off"

\* a stream with a note_on of velocity 0, a tempo message and a note_on
C16_Witness ==
    /\ compiled # <<>>
    /\ Unwindowed
    /\ Len(mid.msgs) = 3
    /\ mid.msgs[1].type = "note_on" /\ mid.msgs[1].velocity = 0
    /\ mid.msgs[2].type = "set_tempo"
    /\ mid.msgs[3].type = "note_on" /\ mid.msgs[3].velocity > 0
    /\ Len(compiled[1]) = 2

\* t lies in the window [min_time, max_time]
InWindow(t) ==
    /\ min_time # <<>> => min_time[1] <= t
    /\ max_time # <<>> => t <= max_time[1]

(* C17. Time window: midi_to_events(mid, min_time, max_time) returns       *)
(* exactly the events of the compile without a window whose time lies in   *)
(* min_time <= t <= max_time; the early end of the scan drops none of them.*)
C17_TimeWindow ==
    compiled # <<>> =>
        compiled[1] = SelectSeq(Whole, LAMBDA e : InWindow(e.time))

\* a window with both bounds that keeps some events, drops one before it and
\* ends the scan early
C17_Witness ==
    /\ compiled # <<>>
    /\ min_time = <<250000>>
    /\ max_time = <<250000>>
    /\ Len(Whole) = 3
    /\ Whole[1].time < 250000
    /\ Len(compiled[1]) = 1

(* C18. Pitch range filter: the compiled list has an event for a note      *)
(* message if and only if its note number n satisfies 48 <= n <= 83.       *)
C18_PitchRangeFilter ==
    compiled # <<>> /\ Unwindowed =>
        \A n \in Pitches \cup {60} :
            Count(compiled[1], LAMBDA e : e.note = n)
                = IF 48 <= n /\ n <= 83
                  THEN Count(mid.msgs, LAMBDA msg : IsNoteMsg(msg) /\ msg.note = n)
                  ELSE 0

\* the notes 48 and 84 compiled: one event, for 48
C18_Witness ==
    /\ compiled # <<>>
    /\ Unwindowed
    /\ {mid.msgs[i].note : i \in DOMAIN mid.msgs} = {48, 84}
    /\ Len(compiled[1]) = 1
    /\ compiled[1][1].note = 48

(* C19. Compiler output order: the returned list is in non-decreasing time *)
(* order, and the events of one time are in the order in which their       *)
(* messages arrived.                                                       *)
C19_OutputOrder ==
    compiled # <<>> =>
        LET out == compiled[1]
            arrived == Unsorted(mid, min_time, max_time)
        IN  /\ \A k \in 1..(Len(out) - 1) : out[k].time <= out[k + 1].time
            /\ Len(out) = Len(arrived)
            /\ \A k \in DOMAIN out :
                  SelectSeq(out, LAMBDA e : e.time = out[k].time)
                      = SelectSeq(arrived, LAMBDA e : e.time = out[k].time)

\* an On and an Off of one time, in that order, and a later event
C19_Witness ==
    /\ compiled # <<>>
    /\ Len(compiled[1]) = 3
    /\ compiled[1][1].time = compiled[1][2].time
    /\ compiled[1][1].kind = "on"
    /\ compiled[1][2].kind = "off"
    /\ compiled[1][3].time > compiled[1][2].time

(* C20. Total length: midi_total_length returns the final value of the     *)
(* accumulator of the compile without a window, so no compiled event is    *)
(* later than it, and the compile with the window [0, midi_total_length]   *)
(* returns the same list as the compile without a window.                  *)
C20_TotalLength ==
    total # <<>> =>
        /\ total[1] = ScanLoop(mid.msgs, 1, mid.ticks_per_beat, DEFAULT_TEMPO,
                               0, <<>>, <<>>, <<>>).abs_time
        /\ \A k \in DOMAIN Whole : Whole[k].time <= total[1]
        /\ compiled # <<>> /\ min_time = <<0>> /\ max_time = total
              => compiled[1] = Whole

\* a file with a tempo change and a trailing delta, compiled as the callers
\* do: the last event is earlier than the total length
C20_Witness ==
    /\ total # <<>>
    /\ compiled # <<>>
    /\ min_time = <<0>>
    /\ max_time = total
    /\ \E i \in DOMAIN mid.msgs : mid.msgs[i].type = "set_tempo"
    /\ Len(compiled[1]) = 1
    /\ compiled[1][1].time > 0
    /\ compiled[1][1].time < total[1]

----------------------------------------------------------------------------
(* The key mapping in effect: core is imported with or without a key.txt   *)
(* in the working directory.                                               *)

\* most symbols in a key.txt
MaxKeys == 22

KeySymbols ==
    <<"Z", "X", "C", "V", "B", "N", "M", "A", "S", "D", "F", "G", "H", "J",
      "Q", "W", "E", "R", "T", "Y", "U", "I", "O", "P">>

\* the first n key symbols, with a newline after each position of `breaks`
RECURSIVE KeyTextFrom(_, _, _)
KeyTextFrom(i, n, breaks) ==
    IF i > n THEN <<>>
    ELSE <<KeySymbols[i]>> \o (IF i \in breaks THEN <<"\n">> ELSE <<>>)
           \o KeyTextFrom(i + 1, n, breaks)

\* key files: up to MaxKeys symbols, in rows of seven or on one line
KeyTexts ==
    {KeyTextFrom(1, n, breaks) : n \in 0..MaxKeys, breaks \in SUBSET {7, 14, 21}}

\* line 38: list(f.read().replace("\n", ""))
ReadRows(text) == SelectSeq(text, LAMBDA c : c # "\n")

\* lines 39-41: for note, ch in zip(notes, rows): mapping[note] = ch
MappingFromRows(rows) ==
    LET n == Min(Len(WhiteNotes), Len(rows))
    IN  [note \in {WhiteNotes[i] : i \in 1..n} |->
            rows[CHOOSE i \in 1..n : WhiteNotes[i] = note]]

InitKeyMap ==
    /\ key_txt \in {<<>>} \cup {<<text>> : text \in KeyTexts}
    /\ note_to_char = <<>>
    /\ fine_events = <<>>
    /\ fine_groups = <<>>
    /\ track = <<>>
    /\ selected = TRUE
    /\ new_track = <<>>
    /\ agent = <<>>
    /\ ScriptsIdle
    /\ gui = <<>>
    /\ InitWith(<<>>, FALSE)
    /\ fail_at = 0
    /\ CompilerIdle

\* lines 35-44: the module-level choice of _NOTE_TO_CHAR when core is imported
ImportCore ==
    /\ note_to_char = <<>>
    /\ note_to_char' = <<IF key_txt # <<>>
                         THEN MappingFromRows(ReadRows(key_txt[1]))
                         ELSE build_note_to_char_map>>
    /\ UNCHANGED <<key_txt, fine_events, fine_groups, track, selected,
                   new_track, agent, gui, scripts, player, compiler>>

NextKeyMap == ImportCore

SpecKeyMap == InitKeyMap /\ [][NextKeyMap]_vars

\* the white-key notes of the range
WhiteKeySet == {n \in 48..83 : (n % 12) \in {0, 2, 4, 5, 7, 9, 11}}

\* the i-th lowest white-key note
WhiteKey(i) ==
    CHOOSE n \in WhiteKeySet : Cardinality({m \in WhiteKeySet : m < n}) = i - 1

\* the symbols supplied: the key list, or the three default rows
SuppliedSymbols ==
    IF key_txt = <<>> THEN ROW1 \o ROW2 \o ROW3 ELSE ReadRows(key_txt[1])

\* the mapping covers exactly the 21 white keys, symbols in ascending order
MappingShape(m) ==
    /\ DOMAIN m = WhiteKeySet
    /\ Cardinality(DOMAIN m) = 21
    /\ \A i \in 1..21 : m[WhiteKey(i)] = SuppliedSymbols[i]

(* C21. Key mapping shape: the mapping in effect, whether the built-in     *)
(* default or one built from a supplied key list, has as its domain        *)
(* exactly the 21 white-key notes of 48..83, with the symbols assigned in  *)
(* ascending pitch order.                                                  *)
C21_KeyMappingShape ==
    note_to_char # <<>> => MappingShape(note_to_char[1])

\* the same, for the default table and for key lists of at least 21 symbols:
\* this holds
C21_KeyMappingShapeOfFullList ==
    note_to_char # <<>> /\ Len(SuppliedSymbols) >= 21
        => MappingShape(note_to_char[1])

----------------------------------------------------------------------------
(* Unmapped notes. *)

IsMapped(e) == e.note \in DOMAIN NOTE_TO_CHAR

\* a group is dispatched in this step
Dispatched == Len(disp') = Len(disp) + 1

(* C22. Unmapped notes are inert: the dispatch of a group issues the calls *)
(* and leaves the PressedKeySet that the same group without its unmapped   *)
(* events would; a group made only of unmapped events issues no call and   *)
(* leaves the PressedKeySet unchanged.                                     *)
C22_UnmappedInert ==
    [][Dispatched =>
         LET evlist == groups[gi].evs
             d == DispatchGroup(SelectSeq(evlist, IsMapped), pressed_chars,
                                calls, gi)
         IN  /\ calls' = d.log
             /\ pressed_chars' = d.pressed
             /\ (\A i \in DOMAIN evlist : ~IsMapped(evlist[i]))
                   => calls' = calls /\ pressed_chars' = pressed_chars]_vars

\* a dispatched group of C#4 (no entry) and C4 On: only "Q" was pressed
C22_Witness ==
    /\ Len(disp) = 1
    /\ Len(groups) = 1
    /\ {groups[1].evs[i].note : i \in DOMAIN groups[1].evs} = {60, 61}
    /\ \E i \in DOMAIN groups[1].evs :
          groups[1].evs[i].note = 61 /\ IsOn(groups[1].evs[i])
    /\ Len(calls) = 1
    /\ calls[1].chars = <<"Q">>
    /\ pressed_chars = {"Q"}

----------------------------------------------------------------------------
(* The agent (src/ensemble/agent.py): a threaded HTTP server with one      *)
(* module-level stop_flag.  Every POST /play starts a daemon thread that   *)
(* sleeps until start_at and then runs play_events on stop_flag; POST /cnt *)
(* with cnt = "s" sets the flag, sleeps three seconds and clears it.  The  *)
(* agent's clock agent.time counts seconds.  A play_events session is      *)
(* reduced to its flag checks: each step either sees the flag set and      *)
(* returns after the cleanup, or presses the keys of its next group, or    *)
(* returns after its last group; a running session never lets a second     *)
(* pass before it checks a set flag.                                       *)

\* requests of either kind the agent receives
MaxPlays == 2
MaxCnts == 2
\* the agent is watched for this many seconds
MaxAgentTime == 5
\* most groups in the events of a /play request
MaxAgentGroups == 2

\* time.sleep(3) of the /cnt handler
CNT_SLEEP == 3

\* start_at - time.time() when a /play request arrives
StartDelays == {0, 4}

KeyMapIdle == key_txt = <<>> /\ note_to_char = <<>>

GrouperIdle == fine_events = <<>> /\ fine_groups = <<>>

FilterIdle == track = <<>> /\ selected = TRUE /\ new_track = <<>>

PlayerIdle == InitWith(<<>>, FALSE) /\ fail_at = 0

InitAgent ==
    /\ agent = [stop_flag |-> FALSE, threads |-> <<>>, handlers |-> <<>>,
                time |-> 0]
    /\ gui = <<>>
    /\ ScriptsIdle
    /\ KeyMapIdle
    /\ GrouperIdle
    /\ FilterIdle
    /\ PlayerIdle
    /\ CompilerIdle

\* everything but the agent
not_agent == <<key_txt, note_to_char, fine_events, fine_groups, track,
               selected, new_track, gui, scripts, player, compiler>>

\* the threads that have been started and have not returned from play_events
LiveThreads ==
    {t \in DOMAIN agent.threads : agent.threads[t].st # "returned"}

\* POST /play, lines 22-130: the events are prepared and a thread is started
Play ==
    /\ Len(agent.threads) < MaxPlays
    /\ \E delay \in StartDelays, n \in 1..MaxAgentGroups :
          agent' = [agent EXCEPT !.threads =
                       Append(@, [st |-> "sleeping",
                                  start_at |-> agent.time + delay,
                                  left |-> n, held |-> FALSE, presses |-> 0])]
    /\ UNCHANGED not_agent

\* _play_later, lines 118-123: the delay is over, play_events is called
PlayLater(t) ==
    /\ agent.threads[t].st = "sleeping"
    /\ agent.time >= agent.threads[t].start_at
    /\ agent' = [agent EXCEPT !.threads[t].st = "playing"]
    /\ UNCHANGED not_agent

\* play_events(events, stop_flag, None) on thread t: the next flag check
\* and what follows it
PlayStep(t) ==
    /\ agent.threads[t].st = "playing"
    /\ IF agent.stop_flag \/ agent.threads[t].left = 0
       THEN agent' = [agent EXCEPT !.threads[t].st = "returned",
                                   !.threads[t].held = FALSE]
       ELSE agent' = [agent EXCEPT !.threads[t].left = @ - 1,
                                   !.threads[t].held = TRUE,
                                   !.threads[t].presses = @ + 1]
    /\ UNCHANGED not_agent

\* POST /cnt with cnt = "s", lines 138-140: core_stop(stop_flag), then sleep
Cnt ==
    /\ Len(agent.handlers) < MaxCnts
    /\ agent' = [agent EXCEPT
                   !.stop_flag = TRUE,
                   !.handlers = Append(@, [st |-> "sleeping",
                                           wake_at |-> agent.time + CNT_SLEEP,
                                           live |-> LiveThreads])]
    /\ UNCHANGED not_agent

\* line 141: stop_flag.clear() when the sleep of handler h is over
CntClear(h) ==
    /\ agent.handlers[h].st = "sleeping"
    /\ agent.time >= agent.handlers[h].wake_at
    /\ agent' = [agent EXCEPT !.stop_flag = FALSE,
                              !.handlers[h].st = "done"]
    /\ UNCHANGED not_agent

\* a sleeper is due, or a running session has a set flag to check
AgentUrgent ==
    \/ \E t \in DOMAIN agent.threads :
          \/ /\ agent.threads[t].st = "sleeping"
             /\ agent.time >= agent.threads[t].start_at
          \/ agent.threads[t].st = "playing" /\ agent.stop_flag
    \/ \E h \in DOMAIN agent.handlers :
          /\ agent.handlers[h].st = "sleeping"
          /\ agent.time >= agent.handlers[h].wake_at

\* a second passes
AgentTick ==
    /\ agent.time < MaxAgentTime
    /\ ~AgentUrgent
    /\ agent' = [agent EXCEPT !.time = @ + 1]
    /\ UNCHANGED not_agent

NextAgent ==
    \/ Play
    \/ \E t \in DOMAIN agent.threads : PlayLater(t)
    \/ \E t \in DOMAIN agent.threads : PlayStep(t)
    \/ Cnt
    \/ \E h \in DOMAIN agent.handlers : CntClear(h)
    \/ AgentTick

SpecAgent == InitAgent /\ [][NextAgent]_vars

(* C23. Single-writer discipline in the agent: at most one play_events     *)
(* session is pending or running at any time.                              *)
C23_SingleWriter == Cardinality(LiveThreads) <= 1

\* handler h clears the flag in this step
Clears(h) == agent.handlers[h].st = "sleeping" /\ agent'.handlers[h].st = "done"

\* the sessions that were pending or running when a flag since cleared was set
StoppedAndCleared ==
    UNION {agent.handlers[h].live :
             h \in {k \in DOMAIN agent.handlers : agent.handlers[k].st = "done"}}

(* C24. Token reset discipline in the agent: the flag set by a stop        *)
(* request is cleared only after every session that was pending or running *)
(* when it was set has returned from play_events, and no such session      *)
(* presses keys after the clear.                                           *)
C24_TokenReset ==
    [][/\ \A h \in DOMAIN agent.handlers :
            Clears(h) => \A t \in agent.handlers[h].live :
                             agent.threads[t].st = "returned"
       /\ \A t \in StoppedAndCleared :
            agent'.threads[t].presses = agent.threads[t].presses]_vars

----------------------------------------------------------------------------
(* The GUI (src/gui.py): the start and stop buttons run start_playback and *)
(* stop_playback on the GUI thread, one at a time.  gui.play_thread is 0   *)
(* for None or the index of the last worker in gui.workers; the Event      *)
(* objects are numbered, gui.stop_flag is the one the window holds and     *)
(* gui.set the ones that are set.  A worker sleeps three seconds, then     *)
(* runs play_events on the Event the window holds at that moment; the      *)
(* session is reduced to its flag checks as in the agent.                  *)

\* worker threads the window starts
MaxStarts == 3
\* most groups in the events of a session
MaxGuiGroups == 2

ALREADY_RUNNING == "A task is already running, please stop it first"

InitGui ==
    /\ gui = [play_thread |-> 0, stop_flag |-> 0, set |-> {}, workers |-> <<>>,
              stopped |-> {}, info_label |-> ""]
    /\ agent = <<>>
    /\ ScriptsIdle
    /\ KeyMapIdle
    /\ GrouperIdle
    /\ FilterIdle
    /\ PlayerIdle
    /\ CompilerIdle

\* everything but the window
not_gui == <<key_txt, note_to_char, fine_events, fine_groups, track,
             selected, new_track, agent, scripts, player, compiler>>

\* Thread.is_alive() of worker w
is_alive(w) == gui.workers[w].st # "done"

\* line 161 without the test
TaskRunning_Unchecked == FALSE

\* line 161: self.play_thread and self.play_thread.is_alive()
TaskRunning == gui.play_thread # 0 /\ is_alive(gui.play_thread)

\* start_playback, lines 156-288
start_playback ==
    /\ Len(gui.workers) < MaxStarts
    /\ IF TaskRunning
       THEN gui' = [gui EXCEPT !.info_label = ALREADY_RUNNING]
       ELSE \E n \in 1..MaxGuiGroups :
              gui' = [gui EXCEPT
                        !.stop_flag = Len(gui.workers) + 1,
                        !.workers = Append(@, [st |-> "sleeping", flag |-> <<>>,
                                               left |-> n, presses |-> 0]),
                        !.play_thread = Len(gui.workers) + 1,
                        !.info_label = "running"]
    /\ UNCHANGED not_gui

\* stop_playback, lines 290-296
stop_playback ==
    /\ IF gui.play_thread # 0 /\ is_alive(gui.play_thread)
       THEN gui' = [gui EXCEPT
                      !.set = @ \cup {gui.stop_flag},
                      !.stopped = @ \cup {w \in DOMAIN gui.workers : is_alive(w)},
                      !.info_label = "stop"]
       ELSE gui' = [gui EXCEPT !.info_label = "no task"]
    /\ UNCHANGED not_gui

\* target, lines 276-279: the sleep is over, play_events is called with
\* self.stop_flag
target(w) ==
    /\ gui.workers[w].st = "sleeping"
    /\ gui' = [gui EXCEPT !.workers[w].st = "playing",
                          !.workers[w].flag = <<gui.stop_flag>>]
    /\ UNCHANGED not_gui

\* play_events on worker w: the next flag check and what follows it; after
\* the return, lines 280-283 and the end of the thread
GuiPlayStep(w) ==
    /\ gui.workers[w].st = "playing"
    /\ IF gui.workers[w].flag[1] \in gui.set \/ gui.workers[w].left = 0
       THEN gui' = [gui EXCEPT
                      !.workers[w].st = "done",
                      !.info_label = IF gui.stop_flag \in gui.set
                                     THEN "stop" ELSE "finish"]
       ELSE gui' = [gui EXCEPT !.workers[w].left = @ - 1,
                               !.workers[w].presses = @ + 1]
    /\ UNCHANGED not_gui

NextGui ==
    \/ start_playback
    \/ stop_playback
    \/ \E w \in DOMAIN gui.workers : target(w)
    \/ \E w \in DOMAIN gui.workers : GuiPlayStep(w)

SpecGui == InitGui /\ [][NextGui]_vars

(* C25. Single session in the GUI: at most one worker is alive at any      *)
(* time, it is the window's play_thread, the flag it observes is the one   *)
(* the window holds, and a stop request made while it is alive has set     *)
(* that flag.                                                              *)
C25_SingleSession ==
    /\ Cardinality({w \in DOMAIN gui.workers : is_alive(w)}) <= 1
    /\ \A w \in DOMAIN gui.workers :
          is_alive(w) =>
             /\ w = gui.play_thread
             /\ gui.workers[w].flag \in {<<>>, <<gui.stop_flag>>}
             /\ w \in gui.stopped => gui.stop_flag \in gui.set
    /\ \A w \in gui.stopped :
          gui.workers[w].flag # <<>> => gui.workers[w].flag[1] \in gui.set

\* a second session, started after the first has ended, is stopped: the flag
\* that is set is the second session's
C25_Witness ==
    /\ Len(gui.workers) = 2
    /\ gui.workers[1].st = "done"
    /\ gui.workers[1].flag = <<1>>
    /\ 1 \notin gui.set
    /\ gui.workers[2].st = "playing"
    /\ gui.workers[2].flag = <<2>>
    /\ gui.stopped = {2}
    /\ gui.set = {2}

----------------------------------------------------------------------------
(* The grouper at the scale of its epsilon.  The playback model counts     *)
(* time in units in which two different times are never within 1e-9 s of   *)
(* each other; here fine_events holds times in units of 0.5e-9 s, so that  *)
(* events may lie less than 1e-9 s apart without being simultaneous.       *)

\* most events in a list
MaxFineEvents == 4

\* 1e-9 s (line 236) in units of 0.5e-9 s
FINE_EPS == 2

\* the distance of an event from the event before it
FineGaps == {0, 1, 2, 3}

\* the time-sorted lists of n events from time 0 on
RECURSIVE FineListsOf(_)
FineListsOf(n) ==
    IF n = 1 THEN {<<Ev(0, "on", WhiteNotes[1])>>}
    ELSE {Append(l, Ev(l[n - 1].time + gap, "on", WhiteNotes[n])) :
             l \in FineListsOf(n - 1), gap \in FineGaps}

FineLists == UNION {FineListsOf(n) : n \in 1..MaxFineEvents}

InitGrouper ==
    /\ fine_events \in FineLists
    /\ fine_groups = <<>>
    /\ agent = <<>>
    /\ ScriptsIdle
    /\ gui = <<>>
    /\ KeyMapIdle
    /\ FilterIdle
    /\ PlayerIdle
    /\ CompilerIdle

\* lines 231-242 of play_events
Group ==
    /\ fine_groups = <<>>
    /\ fine_groups' = <<GroupLoopWithin(FINE_EPS, fine_events, 1,
                                        fine_events[1].time, <<>>, <<>>)>>
    /\ UNCHANGED <<fine_events, key_txt, note_to_char, track, selected,
                   new_track, agent, gui, scripts, player, compiler>>

NextGrouper == Group

SpecGrouper == InitGrouper /\ [][NextGrouper]_vars

\* the events of the groups gs, in order
RECURSIVE Flatten(_)
Flatten(gs) == IF gs = <<>> THEN <<>> ELSE Head(gs).evs \o Flatten(Tail(gs))

\* the number of events in the first k groups of gs
RECURSIVE EventsIn(_, _)
EventsIn(gs, k) == IF k = 0 THEN 0 ELSE EventsIn(gs, k - 1) + Len(gs[k].evs)

\* the group of gs that holds the i-th event
GroupOf(gs, i) ==
    CHOOSE k \in DOMAIN gs : EventsIn(gs, k - 1) < i /\ i <= EventsIn(gs, k)

\* the groups cut the list into consecutive non-empty runs
IsPartition(gs, evs) ==
    /\ Flatten(gs) = evs
    /\ \A k \in DOMAIN gs : gs[k].evs # <<>> /\ gs[k].t = gs[k].evs[1].time

(* C27. Grouping rule as stated: two adjacent events less than epsilon     *)
(* apart are in the same group, and two events epsilon or more apart are   *)
(* in different groups.                                                    *)
C27_GroupingRule ==
    fine_groups # <<>> =>
        LET gs == fine_groups[1]
            evs == fine_events
        IN  /\ IsPartition(gs, evs)
            /\ \A i \in 1..(Len(evs) - 1) :
                  evs[i + 1].time - evs[i].time < FINE_EPS
                      => GroupOf(gs, i + 1) = GroupOf(gs, i)
            /\ \A i, j \in DOMAIN evs :
                  Abs(evs[j].time - evs[i].time) >= FINE_EPS
                      => GroupOf(gs, i) # GroupOf(gs, j)

(* C27 (amended). Grouping rule: the groups are consecutive runs of the    *)
(* list; every event of a group is less than epsilon after the group's     *)
(* first event, the first event of the next group is epsilon or more after *)
(* it, and so two events epsilon or more apart are in different groups.    *)
C27_GroupingRuleAnchored ==
    fine_groups # <<>> =>
        LET gs == fine_groups[1]
            evs == fine_events
        IN  /\ IsPartition(gs, evs)
            /\ \A k \in DOMAIN gs : \A i \in DOMAIN gs[k].evs :
                  gs[k].evs[i].time - gs[k].t < FINE_EPS
            /\ \A k \in 1..(Len(gs) - 1) : gs[k + 1].t - gs[k].t >= FINE_EPS
            /\ \A i, j \in DOMAIN evs :
                  Abs(evs[j].time - evs[i].time) >= FINE_EPS
                      => GroupOf(gs, i) # GroupOf(gs, j)

\* three events, each less than epsilon after the one before, the third
\* epsilon after the first: the third opens a group
C27_Witness ==
    /\ fine_groups # <<>>
    /\ Len(fine_events) = 3
    /\ fine_events[2].time = 1
    /\ fine_events[3].time = 2
    /\ Len(fine_groups[1]) = 2
    /\ Len(fine_groups[1][1].evs) = 2

----------------------------------------------------------------------------
(* The value handed to the progress callback and the waits of the hybrid   *)
(* strategy, in the playback model. *)

(* C28. Progress value: each value passed to the progress callback is the  *)
(* time elapsed since playback start, now - start_wall, whatever the time  *)
(* of the first event.                                                     *)
C28_ProgressValue ==
    \A k \in DOMAIN progress : progress[k].value = progress[k].at - start_wall

\* the same for the lists whose first event is at time 0: this holds
C28_ProgressValueFromZero ==
    events # <<>> /\ events[1].time = 0 =>
        \A k \in DOMAIN progress :
            progress[k].value = progress[k].at - start_wall

\* the thread calls stop_flag.wait in this step
Blocks == pc = "while_top" /\ pc' = "waiting"

(* C29. Hybrid wait bounds: the thread blocks only while the time left to  *)
(* the deadline is more than spin_threshold; the duration d it asks for is *)
(* positive, at most sleep_chunk and at most the time left minus           *)
(* spin_threshold, so the timeout is never later than the deadline minus   *)
(* spin_threshold; from the busy loop it never blocks.                     *)
C29_HybridWaitBounds ==
    [][/\ Blocks =>
            LET remaining == target_wall - now
                d == wait_until' - now
            IN  /\ remaining > spin_threshold
                /\ 0 < d
                /\ d <= sleep_chunk
                /\ d <= remaining - spin_threshold
       /\ pc' = "waiting" =>
            /\ pc \in {"while_top", "waiting"}
            /\ wait_until' <= target_wall' - spin_threshold
       /\ pc = "spin" => pc' \in {"spin", "post_wait"}]_vars

\* a wait of a whole sleep_chunk has just been asked for, more than
\* spin_threshold before the deadline
C29_Witness ==
    /\ pc = "waiting"
    /\ ~stop_flag
    /\ wait_until - now = sleep_chunk
    /\ target_wall - wait_until > spin_threshold

\* the busy loop has been entered with spin_threshold left, after waits
C29_WitnessSpin ==
    /\ pc = "spin"
    /\ stops = 0
    /\ gi = 2
    /\ target_wall - now = spin_threshold
    /\ wait_until = now

----------------------------------------------------------------------------
(* Track filtering in the agent (src/ensemble/agent.py, lines 60-107): the *)
(* note messages of a track that is not selected are removed and their     *)
(* delta times are carried to the next message that is kept.  `track` is   *)
(* the track as loaded, `new_track` the track after the loop body.         *)

\* most messages in a track
MaxTrackMsgs == 3

\* delta times, in ticks
TrackDeltas == {0, 10}

TrackMsgs ==
    [type : {"note_on", "note_off", "set_tempo", "end_of_track"},
     time : TrackDeltas]

Tracks == UNION {[1..n -> TrackMsgs] : n \in 0..MaxTrackMsgs}

is_meta(msg) == msg.type \in {"set_tempo", "end_of_track"}

\* line 77: msg.is_meta or msg.type not in ('note_on', 'note_off')
Kept(msg) == is_meta(msg) \/ msg.type \notin {"note_on", "note_off"}

\* lines 69-86: the loop over the messages of the track from message i on
RECURSIVE FilterLoop(_, _, _, _)
FilterLoop(trk, i, time_acc, new_msgs) ==
    IF i > Len(trk) THEN [new_msgs |-> new_msgs, time_acc |-> time_acc]
    ELSE LET acc == time_acc + trk[i].time
         IN  IF Kept(trk[i])
             THEN FilterLoop(trk, i + 1, 0,
                             Append(new_msgs, [trk[i] EXCEPT !.time = acc]))
             ELSE FilterLoop(trk, i + 1, acc, new_msgs)

\* lines 90-97: the accumulated time left over after the loop
Leftover(new_msgs, time_acc) ==
    IF time_acc # 0
    THEN IF new_msgs # <<>>
         THEN [new_msgs EXCEPT ![Len(new_msgs)].time = @ + time_acc]
         ELSE <<[type |-> "end_of_track", time |-> time_acc]>>
    ELSE new_msgs

\* lines 100-102: the track ends with an end_of_track
EnsureEnd(new_msgs) ==
    IF new_msgs # <<>> /\ new_msgs[Len(new_msgs)].type = "end_of_track"
    THEN new_msgs
    ELSE Append(new_msgs, [type |-> "end_of_track", time |-> 0])

\* lines 67-107: the body of the loop over the tracks, for a track that is
\* not selected
filter_track(trk) ==
    LET l == FilterLoop(trk, 1, 0, <<>>)
    IN  EnsureEnd(Leftover(l.new_msgs, l.time_acc))

InitFilter ==
    /\ track \in Tracks
    /\ selected \in BOOLEAN
    /\ new_track = <<>>
    /\ agent = <<>>
    /\ ScriptsIdle
    /\ gui = <<>>
    /\ KeyMapIdle
    /\ GrouperIdle
    /\ PlayerIdle
    /\ CompilerIdle

\* lines 62-107 for one track: line 64 skips a selected track
FilterTrack ==
    /\ new_track = <<>>
    /\ new_track' = <<IF selected THEN track ELSE filter_track(track)>>
    /\ UNCHANGED <<track, selected, key_txt, note_to_char, fine_events,
                   fine_groups, agent, gui, scripts, player, compiler>>

NextFilter == FilterTrack

SpecFilter == InitFilter /\ [][NextFilter]_vars

\* the absolute tick of the i-th message of msgs
RECURSIVE AbsTick(_, _)
AbsTick(msgs, i) == IF i = 0 THEN 0 ELSE AbsTick(msgs, i - 1) + msgs[i].time

\* the positions in msgs of the messages the filter keeps, in order
KeptIdx(msgs) ==
    LET RECURSIVE From(_)
        From(i) == IF i > Len(msgs) THEN <<>>
                   ELSE IF Kept(msgs[i]) THEN <<i>> \o From(i + 1)
                   ELSE From(i + 1)
    IN  From(1)

\* out holds the kept messages of trk in order, each at the tick it had in
\* trk, followed by nothing but an end_of_track the filter may have added
KeepsTiming(trk, out) ==
    LET idx == KeptIdx(trk)
    IN  /\ Len(idx) <= Len(out)
        /\ Len(out) <= Len(idx) + 1
        /\ \A k \in DOMAIN idx :
              /\ out[k].type = trk[idx[k]].type
              /\ AbsTick(out, k) = AbsTick(trk, idx[k])
        /\ Len(out) = Len(idx) + 1 => out[Len(out)].type = "end_of_track"

(* C30. Agent track filtering keeps timing: from a track that is not       *)
(* selected exactly the note messages are removed and every retained       *)
(* message keeps its absolute tick, also when the track ends with note     *)
(* messages.                                                               *)
C30_FilteringKeepsTiming ==
    new_track # <<>> /\ ~selected => KeepsTiming(track, new_track[1])

\* the same for the tracks that do not end with a note message: this holds
C30_FilteringKeepsTimingUnlessNotesLast ==
    /\ new_track # <<>>
    /\ ~selected
    /\ track = <<>> \/ Kept(track[Len(track)])
    => KeepsTiming(track, new_track[1])

\* a selected track is left as it is
C30_SelectedUntouched ==
    new_track # <<>> /\ selected => new_track[1] = track

----------------------------------------------------------------------------
(* Stop requests around the dispatch of a group, in the playback model. *)

(* C32. Stop before start: when the flag is set at the call of play_events *)
(* no press and no release call is ever issued.                            *)
C32_StopBeforeStart == entry_set => calls = <<>>

\* the same while the caller has not cleared the flag: this holds, and the
\* thread is on its way out without having waited
C32_StopBeforeStartUncleared ==
    entry_set /\ clears = 0 =>
        /\ calls = <<>>
        /\ disp = <<>>
        /\ pc \in {"done", "for_top", "cleanup"}
        /\ now = 0

\* the groups dispatched while the flag was set
DispatchedSet == {k \in DOMAIN disp : disp[k].set}

(* C33. Bounded overrun after stop: when the flag is set and never cleared *)
(* at most one group is dispatched after the set, and it is the group      *)
(* whose dispatch (after its post-wait check) was under way at the set;    *)
(* every later group is abandoned.                                         *)
C33_BoundedOverrun ==
    clears = 0 =>
        /\ Cardinality(DispatchedSet) <= 1
        /\ \A k \in DispatchedSet :
              /\ set_in = disp[k].g
              /\ k = Len(disp)
        /\ stop_flag /\ pc = "dispatch" => set_in = gi

\* the flag was set during the dispatch of the first of two groups: the
\* session has returned without the second
C33_Witness ==
    /\ Returned
    /\ clears = 0
    /\ Len(groups) = 2
    /\ Len(disp) = 1
    /\ disp[1].set
    /\ set_in = 1

----------------------------------------------------------------------------
(* The PressedKeySet against the calls that were issued. *)

\* the symbols that are down according to the calls of `log`, each call
\* taken to do what it asks for
IssuedDown(log) ==
    {s \in UNION {SeqToSet(log[i].chars) : i \in DOMAIN log} :
        \E i \in DOMAIN log :
            /\ log[i].op = "press" /\ s \in SeqToSet(log[i].chars)
            /\ \A j \in DOMAIN log :
                  j > i => ~(log[j].op = "release" /\ s \in SeqToSet(log[j].chars))}

\* between two groups, or after the cleanup
GroupBoundary == pc \in {"for_top", "done"}

(* C34. PressedKeySet tracks the device: at every group boundary, after a  *)
(* group's dispatch and after the final cleanup, the symbols that are down *)
(* according to the press and release calls issued so far are exactly the  *)
(* PressedKeySet.                                                          *)
C34_PressedKeySetTracksDevice ==
    GroupBoundary => IssuedDown(calls) = pressed_chars

\* after the second group, which released one of the two symbols the first
\* had pressed
C34_Witness ==
    /\ pc = "for_top"
    /\ Len(disp) = 2
    /\ Cardinality(pressed_chars) = 1
    /\ \E i \in CallsOf(1) :
          calls[i].op = "press" /\ Cardinality(SeqToSet(calls[i].chars)) = 2
    /\ \E i \in CallsOf(2) : calls[i].op = "release"
    /\ \A i \in CallsOf(2) : calls[i].op # "press"

----------------------------------------------------------------------------
(* The batches handed to SendInput. *)

\* no element of the list occurs twice
NoRepeat(chars) ==
    \A i, j \in DOMAIN chars : chars[i] = chars[j] => i = j

\* the On events of evlist for mapped notes
MappedOnEvents(evlist) ==
    SelectSeq(evlist, LAMBDA e : IsOn(e) /\ IsMapped(e))

\* some group holds two On events for one note
DoubledOn ==
    \E g \in DOMAIN groups :
        LET ons == MappedOnEvents(groups[g].evs)
        IN  \E i, j \in DOMAIN ons : i # j /\ ons[i].note = ons[j].note

(* C35. Batches are sets: no press call and no release call holds the same *)
(* symbol more than once, also when a group holds several On events or     *)
(* several Off events for one note.                                        *)
C35_BatchesAreSets == \A i \in DOMAIN calls : NoRepeat(calls[i].chars)

\* the same for the sessions without two On events for one note in a group
\* (several Off events for one note are allowed): this holds
C35_BatchesAreSetsUnlessDoubledOn ==
    ~DoubledOn => \A i \in DOMAIN calls : NoRepeat(calls[i].chars)

\* a release call never repeats a symbol unless it is a retrigger release
\* for a doubled On: the explicit offs and the cleanup are sets
C35_DoubledOffReleasedOnce ==
    \A i \in DOMAIN calls :
        /\ calls[i].op = "release"
        /\ \/ calls[i].group = 0
           \/ \A j \in CallsOf(calls[i].group) :
                 calls[j].op = "press" => j # i + 1
        => NoRepeat(calls[i].chars)

----------------------------------------------------------------------------
(* A note switched off and on in one group. *)

\* the symbols with both an On and an Off in evlist
OnAndOff(evlist) == MappedOns(evlist) \cap MappedOffs(evlist)

\* the calls issued in this step
NewCalls == SubSeq(calls', Len(calls) + 1, Len(calls'))

\* a call of this step releases ch
ReleasedNow(ch) ==
    \E i \in DOMAIN NewCalls :
        NewCalls[i].op = "release" /\ ch \in SeqToSet(NewCalls[i].chars)

(* C36. Same-instant On and Off: when a group holds an On and an Off for   *)
(* one mapped note the Off is applied first and the On second: the press   *)
(* is the last call of the group and holds the symbol, a held symbol is    *)
(* released before it, and the symbol is in PressedKeySet and down after   *)
(* the dispatch.  A symbol that is down is released only by a group with   *)
(* an Off or an On for it or by the final cleanup.                         *)
C36_OffThenOn ==
    [][/\ Dispatched =>
            \A ch \in OnAndOff(groups[gi].evs) :
                /\ ch \in pressed_chars'
                /\ ch \in DownOf(calls')
                /\ NewCalls[Len(NewCalls)].op = "press"
                /\ ch \in SeqToSet(NewCalls[Len(NewCalls)].chars)
                /\ ch \in pressed_chars => ReleasedNow(ch)
       /\ \A ch \in pressed_chars :
            ch \notin pressed_chars' \/ ReleasedNow(ch) =>
                \/ pc = "cleanup"
                \/ /\ Dispatched
                   /\ ch \in MappedOns(groups[gi].evs)
                              \cup MappedOffs(groups[gi].evs)]_vars

\* the second group switched note 60, which was down, off and on: it was
\* released and pressed again, and is down
C36_Witness ==
    /\ Len(disp) = 2
    /\ pc = "for_top"
    /\ NOTE_TO_CHAR[60] \in OnAndOff(groups[2].evs)
    /\ NOTE_TO_CHAR[60] \in MappedOns(groups[1].evs) \ MappedOffs(groups[1].evs)
    /\ NOTE_TO_CHAR[60] \in pressed_chars
    /\ \E i, j \in CallsOf(2) :
          /\ i < j
          /\ calls[i].op = "release"
          /\ calls[j].op = "press"

----------------------------------------------------------------------------
(* assign_tracks of the ensemble controllers.  src/ensemble/controller.py  *)
(* has one version; src/ensemble/cnt/controller.py and                     *)
(* src/ensemble/controller_webui.py share another, which gives a single    *)
(* track to the last agent.  controller.module says which one is called.   *)

\* most agents
MaxAgents == 3
\* the track indices of a file are 0..MaxTrackIndex
MaxTrackIndex == 3

\* the elements of a set of numbers in ascending order
RECURSIVE Ascending(_)
Ascending(S) ==
    IF S = {} THEN <<>>
    ELSE LET m == CHOOSE x \in S : \A y \in S : x <= y
         IN  <<m>> \o Ascending(S \ {m})

\* filtered_tracks: the indices, in file order, of the tracks with notes
TrackLists == {Ascending(S) : S \in SUBSET (0..MaxTrackIndex)}

\* (mutant) the slice of the last agent starts one track late
LastAgentTracks_FromNext(num_agents, num_tracks) ==
    SubSeq(num_tracks, num_agents + 1, Len(num_tracks))

\* num_tracks[num_agents - 1:]
LastAgentTracks(num_agents, num_tracks) ==
    SubSeq(num_tracks, num_agents, Len(num_tracks))

\* the two loops `assignments[i] = [num_tracks[i]]` and the last agent's slice
OneEach(num_agents, num_tracks) ==
    IF Len(num_tracks) < num_agents
    THEN [i \in 1..num_agents |->
            IF i <= Len(num_tracks) THEN <<num_tracks[i]>> ELSE <<>>]
    ELSE [i \in 1..num_agents |->
            IF i < num_agents THEN <<num_tracks[i]>>
            ELSE LastAgentTracks(num_agents, num_tracks)]

\* src/ensemble/controller.py, lines 56-78
assign_tracks(num_agents, num_tracks) ==
    IF num_agents <= 0 \/ num_tracks = <<>> THEN <<>>
    ELSE OneEach(num_agents, num_tracks)

\* src/ensemble/cnt/controller.py, lines 105-132, and
\* src/ensemble/controller_webui.py, lines 71-89
assign_tracks_cnt(num_agents, num_tracks) ==
    IF num_agents <= 0 \/ num_tracks = <<>> THEN <<>>
    ELSE IF Len(num_tracks) = 1
    THEN [i \in 1..num_agents |-> IF i = num_agents THEN num_tracks ELSE <<>>]
    ELSE OneEach(num_agents, num_tracks)

Modules == {"controller", "cnt.controller", "controller_webui"}

InitAssign ==
    /\ controller \in [module : Modules, num_agents : 0..MaxAgents,
                       num_tracks : TrackLists, assignments : {<<>>}]
    /\ library = <<>>
    /\ ensemble = <<>>
    /\ agent = <<>>
    /\ gui = <<>>
    /\ KeyMapIdle
    /\ GrouperIdle
    /\ FilterIdle
    /\ PlayerIdle
    /\ CompilerIdle

\* assignments = assign_tracks(num_agents, filtered_tracks)
AssignTracks ==
    /\ controller.assignments = <<>>
    /\ controller' =
         [controller EXCEPT !.assignments =
            <<IF controller.module = "controller"
              THEN assign_tracks(controller.num_agents, controller.num_tracks)
              ELSE assign_tracks_cnt(controller.num_agents,
                                     controller.num_tracks)>>]
    /\ UNCHANGED <<library, ensemble, key_txt, note_to_char, fine_events,
                   fine_groups, track, selected, new_track, agent, gui, player,
                   compiler>>

NextAssign == AssignTracks

SpecAssign == InitAssign /\ [][NextAssign]_vars

\* how many of the lists hold track index x, and how often
Occurrences(lists, x) ==
    Cardinality({p \in (DOMAIN lists) \X (0..MaxTrackIndex + 1) :
                   p[2] \in DOMAIN lists[p[1]] /\ lists[p[1]][p[2]] = x})

(* C38. Track assignment is a partition: for num_agents >= 1 and a         *)
(* non-empty list of track indices assign_tracks returns num_agents lists; *)
(* every track index of the list is in exactly one of them, once, and they *)
(* hold nothing else; no agent but the last has more than one track.       *)
C38_AssignmentPartition ==
    /\ controller.assignments # <<>>
    /\ controller.num_agents >= 1
    /\ controller.num_tracks # <<>>
    => LET lists == controller.assignments[1]
           n == controller.num_agents
       IN  /\ Len(lists) = n
           /\ \A x \in SeqToSet(controller.num_tracks) :
                 Occurrences(lists, x) = 1
           /\ \A i \in 1..n : SeqToSet(lists[i]) \subseteq
                                 SeqToSet(controller.num_tracks)
           /\ \A i \in 1..(n - 1) : Len(lists[i]) <= 1

\* four tracks for two agents: the last agent has the three surplus tracks
C38_Witness ==
    /\ controller.assignments # <<>>
    /\ controller.num_agents = 2
    /\ Len(controller.num_tracks) = 4
    /\ Len(controller.assignments[1][1]) = 1
    /\ Len(controller.assignments[1][2]) = 3

----------------------------------------------------------------------------
(* The library loop (src/scripts/auto_online.py).  library.songs is the    *)
(* list /latest_songs returns, newest first, each song standing for its    *)
(* hash; every fetch and every download succeeds.  The loop is at          *)
(* library.pc = "check" before line 94 and at "play" before line 119;      *)
(* library.playing is the song of the last pass through lines 119-152,     *)
(* until the next check of the queue.                                      *)

\* the songs the server may hold
SongHashes == {"a", "b", "c"}

\* most songs on the server when the script starts
MaxInitialSongs == 2

\* the lists of n songs (the server may list a song twice)
RECURSIVE SongListsOf(_)
SongListsOf(n) ==
    IF n = 0 THEN {<<>>}
    ELSE {Append(l, h) : l \in SongListsOf(n - 1), h \in SongHashes}

\* lines 59-66: the songs of the list, without repetitions
RECURSIVE Uniq(_, _)
Uniq(songs, seen) ==
    IF songs = <<>> THEN <<>>
    ELSE IF Head(songs) \in seen THEN Uniq(Tail(songs), seen)
    ELSE <<Head(songs)>> \o Uniq(Tail(songs), seen \cup {Head(songs)})

\* build_initial_queue, lines 56-67
build_initial_queue(songs) ==
    [queue |-> Uniq(songs, {}), known_hashes |-> SeqToSet(songs)]

\* insert_new_at_top, lines 70-85: the songs that were not known when the
\* call began go to the left of the queue, in their order
insert_new_at_top(queue, new_songs, known_hashes) ==
    [queue |-> SelectSeq(new_songs, LAMBDA h : h \notin known_hashes) \o queue,
     known_hashes |-> known_hashes \cup SeqToSet(new_songs)]

Reverse(l) == [i \in 1..Len(l) |-> l[Len(l) + 1 - i]]

\* lines 106-112: from the last song to the first, a song that is not known
\* goes to the left of the queue and becomes known
InsertUnknown(queue, songs, known_hashes) ==
    [queue |-> Reverse(Uniq(Reverse(songs), known_hashes)) \o queue,
     known_hashes |-> known_hashes \cup SeqToSet(songs)]

\* (mutant) line 98 is missing and the reload only looks for unseen songs
Reload_Unseen(songs, known_hashes) ==
    insert_new_at_top(<<>>, songs, known_hashes)

\* lines 98-99: known_hashes = set(), then build_initial_queue
Reload(songs, known_hashes) == build_initial_queue(songs)

InitLibrary ==
    /\ \E n \in 1..MaxInitialSongs : \E l \in SongListsOf(n) :
          library = [songs |-> l,
                     queue |-> build_initial_queue(l).queue,
                     known_hashes |-> build_initial_queue(l).known_hashes,
                     empty_count |-> 0, pc |-> "check", playing |-> <<>>,
                     rebuilt |-> FALSE]
    /\ controller = <<>>
    /\ ensemble = <<>>
    /\ agent = <<>>
    /\ gui = <<>>
    /\ KeyMapIdle
    /\ GrouperIdle
    /\ FilterIdle
    /\ PlayerIdle
    /\ CompilerIdle

\* everything but the library loop
not_library == <<controller, ensemble, key_txt, note_to_char, fine_events,
                 fine_groups, track, selected, new_track, agent, gui, player,
                 compiler>>

\* someone uploads a song to the server
Upload ==
    /\ \E h \in SongHashes \ SeqToSet(library.songs) :
          library' = [library EXCEPT !.songs = <<h>> \o @]
    /\ UNCHANGED not_library

\* lines 94-117: the check of the queue at the top of the loop
CheckQueue ==
    /\ library.pc = "check"
    /\ IF library.queue = <<>>
       THEN IF library.empty_count + 1 >= 2
            THEN LET b == Reload(library.songs, library.known_hashes)
                 IN  library' = [library EXCEPT
                        !.queue = b.queue,
                        !.known_hashes = b.known_hashes,
                        !.empty_count = 0,
                        !.rebuilt = TRUE,
                        !.playing = <<>>,
                        !.pc = IF b.queue = <<>> THEN "check" ELSE "play"]
            ELSE LET b == InsertUnknown(library.queue, library.songs,
                                        library.known_hashes)
                 IN  library' = [library EXCEPT
                        !.queue = b.queue,
                        !.known_hashes = b.known_hashes,
                        !.empty_count = @ + 1,
                        !.playing = <<>>,
                        !.pc = IF b.queue = <<>> THEN "check" ELSE "play"]
       ELSE library' = [library EXCEPT !.empty_count = 0, !.playing = <<>>,
                                       !.pc = "play"]
    /\ UNCHANGED not_library

\* lines 119-152: the first song of the queue is downloaded and played,
\* then the new songs are put on top of the queue
PlaySong ==
    /\ library.pc = "play"
    /\ LET song == Head(library.queue)
           b == insert_new_at_top(Tail(library.queue), library.songs,
                                  library.known_hashes)
       IN  library' = [library EXCEPT !.queue = b.queue,
                                      !.known_hashes = b.known_hashes,
                                      !.playing = <<song>>,
                                      !.pc = "check"]
    /\ UNCHANGED not_library

\* the loop of auto_play_from_api
Loop == CheckQueue \/ PlaySong

NextLibrary == Upload \/ CheckQueue \/ PlaySong

\* the script keeps running
SpecLibrary == InitLibrary /\ [][NextLibrary]_vars /\ WF_vars(Loop)

(* C37. Library loop: every song the server lists is played again and      *)
(* again: whenever a song is listed and is not the one being played, a     *)
(* later pass of the loop plays it (the queue is rebuilt from the whole    *)
(* list once it has been found empty twice).                               *)
C37_LibraryLoop ==
    \A h \in SongHashes :
        (h \in SeqToSet(library.songs) /\ library.playing # <<h>>)
            ~> (library.playing = <<h>>)

\* the oldest of two songs or more is played after the queue was rebuilt
C37_Witness ==
    /\ library.rebuilt
    /\ Len(library.songs) >= 2
    /\ library.playing = <<library.songs[Len(library.songs)]>>
    /\ library.queue = <<>>

----------------------------------------------------------------------------
(* An ensemble: the controller has sent /play for one song to two agents,  *)
(* each with its own track and both with the same start_at                 *)
(* (src/ensemble/controller.py, lines 119-134).  Each agent has filtered   *)
(* the file down to its track and compiled it: its events carry the score  *)
(* times of its own notes.  Its thread sleeps until start_at and calls     *)
(* play_events, which is reduced to its deadlines (src/core.py, lines      *)
(* 244-254); clocks are exact and in step, a group is dispatched at its    *)
(* deadline, and ensemble.time counts seconds.                             *)

\* the ensemble is watched for this many seconds
MaxEnsembleTime == 8

\* most notes in a track
MaxTrackNotes == 2

\* start_at = time.time() + 3.0
START_AHEAD == 3

\* the score times at which a track may have a note
ScoreTimes == {0, 2, 4}

\* the events an agent compiles from its track
TrackEvents ==
    {[i \in 1..Len(l) |-> Ev(l[i], "on", 60)] :
        l \in {Ascending(S) : S \in {T \in SUBSET ScoreTimes :
                                        1 <= Cardinality(T)
                                        /\ Cardinality(T) <= MaxTrackNotes}}}

InitEnsemble ==
    /\ \E e1 \in TrackEvents, e2 \in TrackEvents :
          ensemble =
            [start_at |-> START_AHEAD, time |-> 0,
             agents |-> [a \in 1..2 |->
                           [events |-> IF a = 1 THEN e1 ELSE e2,
                            st |-> "sleeping", groups |-> <<>>, gi |-> 1,
                            start_wall |-> 0, dispatched |-> <<>>]]]
    /\ controller = <<>>
    /\ library = <<>>
    /\ agent = <<>>
    /\ gui = <<>>
    /\ KeyMapIdle
    /\ GrouperIdle
    /\ FilterIdle
    /\ PlayerIdle
    /\ CompilerIdle

\* everything but the ensemble
not_ensemble == <<controller, library, key_txt, note_to_char, fine_events,
                  fine_groups, track, selected, new_track, agent, gui, player,
                  compiler>>

\* src/core.py line 254: target_wall of group i
TargetWall(start, gs, i) == start + (gs[i].t - gs[1].t)

\* _play_later (agent.py, lines 116-123) of agent a: the delay is over and
\* play_events is called; lines 230-248 of play_events
EnsemblePlayLater(a) ==
    /\ ensemble.agents[a].st = "sleeping"
    /\ ensemble.time >= ensemble.start_at
    /\ ensemble' = [ensemble EXCEPT
                      !.agents[a].st = "playing",
                      !.agents[a].groups = GroupEvents(ensemble.agents[a].events),
                      !.agents[a].start_wall = ensemble.time]
    /\ UNCHANGED not_ensemble

\* the clock of agent a has reached the deadline of its next group
Due(a) ==
    LET ag == ensemble.agents[a]
    IN  /\ ag.st = "playing"
        /\ ag.gi <= Len(ag.groups)
        /\ ensemble.time >= TargetWall(ag.start_wall, ag.groups, ag.gi)

\* play_events of agent a: the next group is dispatched
EnsembleDispatch(a) ==
    /\ Due(a)
    /\ ensemble' = [ensemble EXCEPT
                      !.agents[a].dispatched =
                          Append(@, [t |-> ensemble.agents[a].groups[
                                              ensemble.agents[a].gi].t,
                                     at |-> ensemble.time]),
                      !.agents[a].gi = @ + 1]
    /\ UNCHANGED not_ensemble

\* play_events of agent a returns after its last group
EnsembleReturn(a) ==
    /\ ensemble.agents[a].st = "playing"
    /\ ensemble.agents[a].gi > Len(ensemble.agents[a].groups)
    /\ ensemble' = [ensemble EXCEPT !.agents[a].st = "returned"]
    /\ UNCHANGED not_ensemble

\* a second passes, unless an agent has something to do now
EnsembleTick ==
    /\ ensemble.time < MaxEnsembleTime
    /\ \E a \in 1..2 : ensemble.agents[a].st # "returned"
    /\ \A a \in 1..2 :
          /\ ~Due(a)
          /\ ~(ensemble.agents[a].st = "sleeping"
               /\ ensemble.time >= ensemble.start_at)
          /\ ~(ensemble.agents[a].st = "playing"
               /\ ensemble.agents[a].gi > Len(ensemble.agents[a].groups))
    /\ ensemble' = [ensemble EXCEPT !.time = @ + 1]
    /\ UNCHANGED not_ensemble

NextEnsemble ==
    \/ \E a \in 1..2 : EnsemblePlayLater(a)
    \/ \E a \in 1..2 : EnsembleDispatch(a)
    \/ \E a \in 1..2 : EnsembleReturn(a)
    \/ EnsembleTick

SpecEnsemble == InitEnsemble /\ [][NextEnsemble]_vars

(* C31. Ensemble synchrony: every agent dispatches an event with score     *)
(* time t at start_at + t, whenever its first retained event occurs, so    *)
(* events of equal score time are dispatched at the same instant on both   *)
(* agents.                                                                 *)
C31_EnsembleSynchrony ==
    /\ \A a \in 1..2 : \A k \in DOMAIN ensemble.agents[a].dispatched :
          ensemble.agents[a].dispatched[k].at =
              ensemble.start_at + ensemble.agents[a].dispatched[k].t
    /\ \A k1 \in DOMAIN ensemble.agents[1].dispatched :
       \A k2 \in DOMAIN ensemble.agents[2].dispatched :
          ensemble.agents[1].dispatched[k1].t = ensemble.agents[2].dispatched[k2].t
              => ensemble.agents[1].dispatched[k1].at
                     = ensemble.agents[2].dispatched[k2].at

\* what the agents do: an event with score time t is dispatched at start_at
\* plus its distance from the agent's own first event.  This holds
C31_SynchronyFromFirstEvent ==
    \A a \in 1..2 : \A k \in DOMAIN ensemble.agents[a].dispatched :
        ensemble.agents[a].dispatched[k].at =
            ensemble.start_at + (ensemble.agents[a].dispatched[k].t
                                    - ensemble.agents[a].events[1].time)

\* two agents whose first events have the same score time are in step:
\* this holds
C31_SynchronyOfEqualStarts ==
    ensemble.agents[1].events[1].time = ensemble.agents[2].events[1].time =>
        \A k1 \in DOMAIN ensemble.agents[1].dispatched :
        \A k2 \in DOMAIN ensemble.agents[2].dispatched :
            ensemble.agents[1].dispatched[k1].t
                    = ensemble.agents[2].dispatched[k2].t
                => ensemble.agents[1].dispatched[k1].at
                       = ensemble.agents[2].dispatched[k2].at

====
